---- MODULE Spec2Model ----
(***************************************************************************)
(* Model of the social-scraper scripts (instagram_scraper.py,              *)
(* facebook_scraper.py, reddit_scraper.py, linkedin_scraper.py,            *)
(* twitter_scraper.py): one engagement run per platform (Spec), and the    *)
(* Instagram fragment tokenizer parse_ig_comment_blocks (TokSpec).         *)
(*                                                                         *)
(* The browser (selenium driver), the text-generation service and the      *)
(* pages are the environment: every driver call that the code leaves       *)
(* outside a try block may raise, every guarded call may fail, every page  *)
(* may hold any comments.                                                  *)
(***************************************************************************)
EXTENDS Integers, Sequences, FiniteSets, TLC

VARIABLES
    platform,       \* which script runs: "ig", "fb", "rd", "li", "tw"
    reply_limit,    \* args.reply_limit / REPLY_LIMIT
    google_pages,   \* args.google_pages / GOOGLE_PAGES
    pc,             \* position of the main block
    session,        \* the browser process: "none", "open", "closed"
    driver_bound,   \* whether the Python name `driver` has been assigned
    links,          \* the set `links` of the search harvester
    page,           \* loop variable of the harvester's page loop
    post_urls,      \* list(links): the URLs handed to extraction
    idx,            \* position of the extraction loop in post_urls (1-based)
    all_comments,   \* list of [author, text, post_url]
    cand,           \* position of the reply loop in its list (1-based)
    cand_end,       \* last position of the list the reply loop runs over
    replied_users,  \* set of authors (ig, fb, rd)
    reply_count,
    failed_count,   \* fb only
    replies_data,   \* list of [username, reply_text, success]
    trace,          \* everything the run did that is visible outside, in order
    result,         \* << >> or <<the terminal result object>>
    exit_code,      \* meaningful once pc = "exited"
    raw_texts,      \* tokenizer: the fragment list
    i,              \* tokenizer: scan index (0-based, as in the code)
    comments,       \* tokenizer: emitted records
    tok_pc,         \* tokenizer: "scan" or "done"
    par_platform,   \* container parser: whose parser runs ("fb", "li", "tw", "rd")
    blocks,         \* container parser: the containers handed to it
    bi,             \* container parser: containers done so far
    data,           \* container parser: the list it builds
    par_pc,         \* container parser: "idle", "loop", "parsed" or "done"
    stats,          \* what the caller computes from the list (fb counts)
    fn_name,        \* text function under call: which function
    fn_arg,         \* text function under call: its argument
    fn_out,         \* text function under call: what the last call returned
    fn_prev,        \* text function under call: what the call before returned
    fn_pc,          \* text function under call: "idle", "call", "once", "twice"
    scr_pc,         \* scroll_comment_panel: "idle", "start", "loop", "returned"
    scr_i,          \* scroll_comment_panel: scroll actions so far
    last_scroll,    \* scroll_comment_panel: the local of that name
    stable,         \* scroll_comment_panel: the local of that name
    polls,          \* scroll_comment_panel: the latest polled positions
    scr_err         \* scroll_comment_panel: whether the except branch ran

runVars == <<platform, reply_limit, google_pages, pc, session, driver_bound,
             links, page, post_urls, idx, all_comments, cand, cand_end,
             replied_users, reply_count, failed_count, replies_data, trace,
             result, exit_code>>
tokVars == <<raw_texts, i, comments, tok_pc>>
parVars == <<par_platform, blocks, bi, data, par_pc, stats>>
fnVars == <<fn_name, fn_arg, fn_out, fn_prev, fn_pc>>
scrVars == <<scr_pc, scr_i, last_scroll, stable, polls, scr_err>>
vars == <<runVars, tokVars, parVars, fnVars, scrVars>>

(***************************************************************************)
(* Bounds of the model.                                                    *)
(***************************************************************************)
MaxReplyLimit == 2
MaxPages == 2
MaxComments == 2

Platforms == {"ig", "fb", "rd", "li", "tw"}
\* The distinct post URLs a search can find.
Urls == {1, 2}
Authors == {"A", "B"}

\* The body of the k-th comment collected in a run.  No step of a run reads
\* a body (it is only handed to generate_reply), so bodies are labels.
TextAt(k) ==
    CASE k = 1 -> "x"
      [] k = 2 -> "y"
      [] k = 3 -> "z"
      [] OTHER -> "w"

(***************************************************************************)
(* Helpers over sequences.                                                 *)
(***************************************************************************)
SeqsUpTo(S, n) == UNION {[1..k -> S] : k \in 0..n}

Perms(S) == {f \in [1..Cardinality(S) -> S] :
                \A a, b \in 1..Cardinality(S) : a # b => f[a] # f[b]}

Min(a, b) == IF a <= b THEN a ELSE b

(***************************************************************************)
(* Trace events.  k: kind, s: text payload, n/d: a number (n over d),      *)
(* t: for a reply-generation call the outcome of the service ("ok" or      *)
(* "error"), for a post call the kind of text handed to it ("llm" or       *)
(* "template"), "" otherwise.                                              *)
(***************************************************************************)
EvT(k, s, n, d, t) == [k |-> k, s |-> s, n |-> n, d |-> d, t |-> t]
Ev(k, s, n, d) == EvT(k, s, n, d, "")

EvOpen == Ev("open", "", 0, 1)
EvQuit == Ev("quit", "", 0, 1)
EvResult == Ev("result", "", 0, 1)
EvGen(author, pos, llm_ok) ==
    EvT("gen", author, pos, 1, IF llm_ok THEN "ok" ELSE "error")
EvNav(url) == Ev("nav", "", url, 1)
EvPost(reply, ok) ==
    EvT("post", reply.user, IF ok THEN 1 ELSE 0, 1, reply.src)
EvSleep(secs) == Ev("sleep", "", secs, 1)
EvProgress(status, n, d) == Ev("progress", status, n, d)

(***************************************************************************)
(* Per-platform constants and structure of the main block.                 *)
(***************************************************************************)
\* REPLY_DELAY of each script.
ReplyDelay(p) ==
    CASE p = "ig" -> 40
      [] p = "fb" -> 30
      [] p = "rd" -> 45
      [] p = "li" -> 45
      [] p = "tw" -> 60

\* time.sleep after a failed post; 0 where the code does not sleep.
FailDelay(p) ==
    CASE p = "ig" -> 10
      [] p = "fb" -> 5
      [] OTHER -> 0

\* The scripts whose main block sits in try / except Exception / finally.
HasTry(p) == p \in {"ig", "li", "tw"}

\* instagram_scraper.py calls setup_driver inside the try; linkedin and
\* twitter call it before the try.
SetupInTry(p) == p = "ig"

\* The scripts whose reply loop keeps the set replied_users.
HasDedup(p) == p \in {"ig", "fb", "rd"}

\* linkedin and twitter reply to the rows of a post right after parsing it.
RepliesPerPost(p) == p \in {"li", "tw"}

\* reddit_scraper.py has no module-level `import json` (its only import of
\* json is line 398, after the reply loop), so its log_progress raises
\* NameError at json.dumps on its first call.
LogProgressWorks(p) == p # "rd"

\* How many harvested URLs the extraction loop visits.
UrlCap(p, n) ==
    CASE p = "ig" -> Min(n, 3)
      [] p \in {"li", "tw"} -> Min(n, 10)
      [] p = "rd" -> Min(n, 2)
      [] OTHER -> n

(***************************************************************************)
(* generate_reply: the service's text, written for the author and the      *)
(* comment, or on any failure the script's template, which names only the  *)
(* author.                                                                 *)
(***************************************************************************)
generate_reply(author, text, llm_ok) ==
    IF llm_ok
    THEN [src |-> "llm", user |-> author, about |-> text]
    ELSE [src |-> "template", user |-> author, about |-> ""]

ReplyAttemptRec(user, reply, ok) ==
    [username |-> user, reply_text |-> reply, success |-> ok]

(***************************************************************************)
(* An exception that reaches the top of the main block, with the trace so  *)
(* far.  Inside try (ig, li, tw): log_progress("failed", 0, ...),          *)
(* sys.exit(1), then finally: driver.quit(), which itself raises when the  *)
(* name driver was never bound.  Elsewhere (fb, rd): the interpreter ends  *)
(* with a traceback and nothing else runs.                                 *)
(***************************************************************************)
Raise(tr, in_try, bound, sess) ==
    /\ pc' = "exited"
    /\ exit_code' = 1
    /\ IF in_try
       THEN IF bound
            THEN /\ trace' = tr \o <<EvProgress("failed", 0, 1), EvQuit>>
                 /\ session' = "closed"
            ELSE /\ trace' = tr \o <<EvProgress("failed", 0, 1)>>
                 /\ session' = sess
       ELSE /\ trace' = tr
            /\ session' = sess

(***************************************************************************)
(* Initial state: a job and nothing done yet.                              *)
(***************************************************************************)
RunIdle ==
    /\ pc = "start"
    /\ session = "none"
    /\ driver_bound = FALSE
    /\ links = {}
    /\ page = 0
    /\ post_urls = << >>
    /\ idx = 1
    /\ all_comments = << >>
    /\ cand = 1
    /\ cand_end = 0
    /\ replied_users = {}
    /\ reply_count = 0
    /\ failed_count = 0
    /\ replies_data = << >>
    /\ trace = << >>
    /\ result = << >>
    /\ exit_code = 0

TokIdle ==
    /\ raw_texts = << >>
    /\ i = 0
    /\ comments = << >>
    /\ tok_pc = "done"

\* No container parser at work.
NoStats == [total |-> 0, last_1h |-> 0, last_24h |-> 0]
ParIdle ==
    /\ par_platform = "fb"
    /\ blocks = << >>
    /\ bi = 0
    /\ data = << >>
    /\ par_pc = "idle"
    /\ stats = NoStats

\* No text function under call.
FnIdle ==
    /\ fn_name = "none"
    /\ fn_arg = << >>
    /\ fn_out = << >>
    /\ fn_prev = << >>
    /\ fn_pc = "idle"

\* No comment panel being scrolled.
ScrIdle ==
    /\ scr_pc = "idle"
    /\ scr_i = 0
    /\ last_scroll = -1
    /\ stable = 0
    /\ polls = << >>
    /\ scr_err = FALSE

Init ==
    /\ platform \in Platforms
    /\ reply_limit \in 0..MaxReplyLimit
    /\ google_pages \in 0..MaxPages
    /\ RunIdle
    /\ TokIdle
    /\ ParIdle
    /\ FnIdle
    /\ ScrIdle

jobVars == <<platform, reply_limit, google_pages>>

(***************************************************************************)
(* setup_driver: uc.Chrome(...) starts the browser, then execute_script;   *)
(* either may raise.  Groq(api_key=...) may raise too.  fb and rd build    *)
(* the client at import, before the browser (fb 38, rd 58): nothing has    *)
(* run yet.  ig, li and tw build it in main after `driver =                *)
(* setup_driver(...)`, so the browser is open and the name driver bound:   *)
(* ig inside the try (353), li and tw before it (li 175, tw 150), where    *)
(* the exception ends the process with the browser left open.  On success  *)
(* ig, li and tw log "running" 5.                                          *)
(***************************************************************************)
Setup ==
    /\ pc = "start"
    /\ \E chrome_ok, script_ok, groq_ok \in BOOLEAN :
        LET sess == IF chrome_ok THEN "open" ELSE "none"
            tr == IF chrome_ok THEN <<EvOpen>> ELSE << >>
        IN  IF ~groq_ok /\ ~HasTry(platform)
            THEN /\ driver_bound' = FALSE
                 /\ Raise(<< >>, FALSE, FALSE, "none")
            ELSE IF ~(chrome_ok /\ script_ok)
            THEN /\ driver_bound' = FALSE
                 /\ Raise(tr, SetupInTry(platform), FALSE, sess)
            ELSE IF ~groq_ok
            THEN /\ driver_bound' = TRUE
                 /\ Raise(tr, SetupInTry(platform), TRUE, sess)
            ELSE /\ session' = "open"
                 /\ driver_bound' = TRUE
                 /\ trace' = IF HasTry(platform)
                             THEN tr \o <<EvProgress("running", 5, 1)>>
                             ELSE tr
                 /\ pc' = "search"
                 /\ UNCHANGED exit_code
    /\ UNCHANGED <<jobVars, links, page, post_urls, idx, all_comments, cand,
                   cand_end, replied_users, reply_count, failed_count,
                   replies_data, result, tokVars, parVars, fnVars, scrVars>>

(***************************************************************************)
(* The head of the search harvester: open the search page, type the query. *)
(* None of it is guarded, so a driver error is fatal.                      *)
(***************************************************************************)
SearchStart ==
    /\ pc = "search"
    /\ \E ok \in BOOLEAN :
        IF ok
        THEN /\ pc' = IF google_pages > 0 THEN "pages" ELSE "harvested"
             /\ links' = {}
             /\ page' = 0
             /\ UNCHANGED <<trace, session, exit_code>>
        ELSE /\ Raise(trace, HasTry(platform), driver_bound, session)
             /\ UNCHANGED <<links, page>>
    /\ UNCHANGED <<jobVars, driver_bound, post_urls, idx, all_comments, cand,
                   cand_end, replied_users, reply_count, failed_count,
                   replies_data, result, tokVars, parVars, fnVars, scrVars>>

\* What one result page can add to the set `links`: the links already known
\* that it shows again and any number of new ones.  A URL is an opaque
\* string to the run, so the distinct URLs are numbered in the order of
\* their discovery.
Harvest(known) == {1..m : m \in Cardinality(known)..Cardinality(Urls)}

\* Mutant of MorePages: the `break` after a failed click is missing.
MorePagesWithoutBreak(p, pages, next_ok) == p + 1 < pages

\* Whether the page loop has another iteration after page p: the click on
\* the next button succeeded (no `break`) and range(google_pages) is not
\* used up.
MorePages(p, pages, next_ok) == next_ok /\ p + 1 < pages

(***************************************************************************)
(* One iteration of `for page in range(google_pages)`: ig, li and tw log   *)
(* "searching" int(page / google_pages * 30); the page's links are added   *)
(* to the set; a failed click on the next button breaks the loop.          *)
(***************************************************************************)
SearchPage ==
    /\ pc = "pages"
    /\ page < google_pages
    /\ \E found \in Harvest(links), scan_ok, next_ok \in BOOLEAN :
        LET tr == IF HasTry(platform)
                  THEN trace \o <<EvProgress("searching",
                                             (page * 30) \div google_pages, 1)>>
                  ELSE trace
        IN  IF scan_ok
            THEN /\ links' = links \cup found
                 /\ page' = IF next_ok THEN page + 1 ELSE page
                 /\ pc' = IF MorePages(page, google_pages, next_ok)
                          THEN "pages" ELSE "harvested"
                 /\ trace' = tr
                 /\ UNCHANGED <<session, exit_code>>
            ELSE /\ Raise(tr, HasTry(platform), driver_bound, session)
                 /\ UNCHANGED <<links, page>>
    /\ UNCHANGED <<jobVars, driver_bound, post_urls, idx, all_comments, cand,
                   cand_end, replied_users, reply_count, failed_count,
                   replies_data, result, tokVars, parVars, fnVars, scrVars>>

(***************************************************************************)
(* The end of the harvester and the line after its call: ig logs           *)
(* "searching" 30, li and tw log "running" 30, fb logs "RUNNING" 10, rd    *)
(* calls log_progress, which raises.  list(links) is in set order: any     *)
(* order.                                                                  *)
(***************************************************************************)
SearchEnd ==
    /\ pc = "harvested"
    /\ IF LogProgressWorks(platform)
       THEN /\ \E order \in Perms(links) : post_urls' = order
            /\ trace' = trace \o
                 <<CASE platform = "ig" -> EvProgress("searching", 30, 1)
                     [] platform = "fb" -> EvProgress("RUNNING", 10, 1)
                     [] OTHER -> EvProgress("running", 30, 1)>>
            /\ idx' = 1
            /\ pc' = IF UrlCap(platform, Cardinality(links)) >= 1
                     THEN "extract"
                     ELSE IF RepliesPerPost(platform) THEN "finish" ELSE "collected"
            /\ UNCHANGED <<session, exit_code>>
       ELSE /\ Raise(trace, HasTry(platform), driver_bound, session)
            /\ UNCHANGED <<post_urls, idx>>
    /\ UNCHANGED <<jobVars, driver_bound, links, page, all_comments, cand,
                   cand_end, replied_users, reply_count, failed_count,
                   replies_data, result, tokVars, parVars, fnVars, scrVars>>

(***************************************************************************)
(* The extraction loop.                                                    *)
(***************************************************************************)
EvLoad(url) == Ev("load", "", url, 1)

\* The progress event logged for the URL at 1-based position k of n.
ExtractProgress(p, k, n) ==
    CASE p = "ig" -> EvProgress("running", 30 + ((k - 1) * 40) \div 3, 1)
      [] p = "fb" -> EvProgress("RUNNING", 10 * n + 40 * k, n)
      [] OTHER -> EvProgress("running", 30 + ((k - 1) * 40) \div 10, 1)

\* The address a record of the page gets: fb passes driver.current_url to
\* parse_blocks, the address the browser is on after driver.get(url), which
\* a redirect makes another one than the URL of the list (written -url);
\* ig, li and tw pass the URL of the list.
CurrentUrl(p, url, redirected) ==
    IF p = "fb" /\ redirected THEN 0 - url ELSE url

\* Mutant of Collect: the records already in the list get their author
\* rewritten when a page is added.
CollectRewritingAuthors(list, parsed) ==
    [k \in DOMAIN list |-> [list[k] EXCEPT !.author = "Unknown"]] \o parsed

\* `all_comments.extend(...)`: the records of the page go to the end of the
\* list, which is otherwise left as it is.
Collect(list, parsed) == list \o parsed

CommentRec(author, text, url) == [author |-> author, text |-> text, post_url |-> url]

(***************************************************************************)
(* One iteration of the loop over the harvested URLs: load the page and    *)
(* parse its comments.  ig, li, tw: progress is logged first and a driver  *)
(* error is fatal.  fb: the body is in try/except and logs exactly once,   *)
(* whatever happened; a failed page adds no comment.  li, tw: the reply    *)
(* loop over the parsed rows follows at once.                              *)
(***************************************************************************)
ExtractFrom(batches) ==
    /\ pc = "extract"
    /\ LET n == Len(post_urls)
           cap == UrlCap(platform, n)
           url == post_urls[idx]
           ev == ExtractProgress(platform, idx, n)
       IN
       /\ idx <= cap
       /\ \E ok \in BOOLEAN, cs \in batches, redirected \in BOOLEAN :
           LET at == CurrentUrl(platform, url, redirected /\ ok /\ cs # << >>)
               parsed == [k \in 1..Len(cs) |->
                            CommentRec(cs[k], TextAt(Len(all_comments) + k), at)]
           IN
           IF platform = "fb"
           THEN /\ all_comments' = IF ok THEN Collect(all_comments, parsed)
                                  ELSE all_comments
                /\ trace' = trace \o <<EvLoad(url), ev>>
                /\ idx' = idx + 1
                /\ pc' = IF idx + 1 > cap THEN "collected" ELSE "extract"
                /\ UNCHANGED <<cand, cand_end, session, exit_code>>
           ELSE IF ok
           THEN /\ all_comments' = Collect(all_comments, parsed)
                /\ trace' = trace \o <<ev, EvLoad(url)>>
                /\ idx' = idx + 1
                /\ IF RepliesPerPost(platform)
                   THEN /\ pc' = "reply"
                        /\ cand' = Len(all_comments) + 1
                        /\ cand_end' = Len(all_comments) + Len(parsed)
                   ELSE /\ pc' = IF idx + 1 > cap THEN "collected" ELSE "extract"
                        /\ UNCHANGED <<cand, cand_end>>
                /\ UNCHANGED <<session, exit_code>>
           ELSE /\ Raise(trace \o <<ev, EvLoad(url)>>, HasTry(platform),
                         driver_bound, session)
                /\ UNCHANGED <<all_comments, idx, cand, cand_end>>
    /\ UNCHANGED <<jobVars, driver_bound, links, page, post_urls,
                   replied_users, reply_count, failed_count, replies_data,
                   result, tokVars, parVars, fnVars, scrVars>>

\* The authors of the comments one page can show: any few of Authors.
ExtractUrl ==
    ExtractFrom(SeqsUpTo(Authors, MaxComments - Len(all_comments)))

(***************************************************************************)
(* Between the extraction loop and the reply loop of ig and fb: ig logs    *)
(* "running" 70; both start the reply loop over all_comments with          *)
(* replied_users = set() and reply_count = 0.                              *)
(***************************************************************************)
Collected ==
    /\ pc = "collected"
    /\ trace' = IF platform = "ig"
                THEN trace \o <<EvProgress("running", 70, 1)>>
                ELSE trace
    /\ replied_users' = {}
    /\ cand' = 1
    /\ cand_end' = Len(all_comments)
    /\ pc' = "reply"
    /\ UNCHANGED <<jobVars, session, driver_bound, links, page, post_urls, idx,
                   all_comments, reply_count, failed_count, replies_data,
                   result, exit_code, tokVars, parVars, fnVars, scrVars>>

(***************************************************************************)
(* The reply loop.                                                         *)
(***************************************************************************)
\* Mutant of UnderLimit: an off-by-one limit test (`>` for `>=`).
UnderLimitOffByOne(count, limit) == count <= limit

\* Mutant of UnderLimit: the limit is never looked at.
UnderLimitIgnored(count, limit) == TRUE

\* `if reply_count >= reply_limit: break` (ig, fb, rd) and
\* `if reply_count < args.reply_limit:` (li, tw).
UnderLimit(count, limit) == count < limit

\* Mutant of Candidate: the first two rows are visited in exchanged order.
CandidateSwapped(list, c) ==
    IF c = 1 /\ Len(list) >= 2 THEN list[2]
    ELSE IF c = 2 THEN list[1]
    ELSE list[c]

\* The row the loop variable is bound to in the c-th iteration of
\* `for comment in all_comments` / `for row in parsed`: rows in list order.
Candidate(list, c) == list[c]

\* `if user in replied_users: continue`; li and tw keep no such set.
AlreadyReplied(p, user, replied) == HasDedup(p) /\ user \in replied

\* Mutant of Replied: the author is recorded whatever the outcome of the post.
RepliedOnAttempt(p, replied, user, ok) ==
    IF HasDedup(p) THEN replied \cup {user} ELSE replied

\* `replied_users.add(user)` in the branch of a successful post (ig, fb, rd).
Replied(p, replied, user, ok) ==
    IF ok /\ HasDedup(p) THEN replied \cup {user} ELSE replied

\* Whether the script loads the comment's post before posting (ig, fb).
NavigatesBeforePost(p) == p \in {"ig", "fb"}

\* Mutant of AfterPost: the progress of a reply is not scaled by the limit.
AfterPostProgressUnscaled(p, ok, count, limit) ==
    CASE p = "ig" ->
           IF ok
           THEN <<EvProgress("running", 70 + count * 30, 1),
                  EvSleep(ReplyDelay(p))>>
           ELSE <<EvSleep(FailDelay(p))>>
      [] p = "fb" ->
           <<EvSleep(IF ok THEN ReplyDelay(p) ELSE FailDelay(p)),
             EvProgress("RUNNING", 50 + 40 * count, 1)>>
      [] OTHER ->
           IF ok THEN <<EvSleep(ReplyDelay(p))>> ELSE << >>

\* Mutant of AfterPost: the pacing sleeps of the two outcomes exchanged.
AfterPostDelaysSwapped(p, ok, count, limit) ==
    IF ok THEN <<EvSleep(FailDelay(p))>> ELSE <<EvSleep(ReplyDelay(p))>>

\* What follows the post call of one candidate, in order.
AfterPost(p, ok, count, limit) ==
    CASE p = "ig" ->
           IF ok
           THEN <<EvProgress("running", 70 + (count * 30) \div limit, 1),
                  EvSleep(ReplyDelay(p))>>
           ELSE <<EvSleep(FailDelay(p))>>
      [] p = "fb" ->
           <<EvSleep(IF ok THEN ReplyDelay(p) ELSE FailDelay(p)),
             EvProgress("RUNNING", 50 * limit + 40 * count, limit)>>
      [] OTHER ->
           IF ok THEN <<EvSleep(ReplyDelay(p))>> ELSE << >>

\* The loop ends: the list is exhausted, or (ig, fb) the limit is reached.
ReplyLoopEnd ==
    /\ pc = "reply"
    /\ \/ cand > cand_end
       \/ ~RepliesPerPost(platform) /\ ~UnderLimit(reply_count, reply_limit)
    /\ pc' = IF RepliesPerPost(platform)
                /\ idx <= UrlCap(platform, Len(post_urls))
             THEN "extract" ELSE "finish"
    /\ UNCHANGED <<jobVars, session, driver_bound, links, page, post_urls, idx,
                   all_comments, cand, cand_end, replied_users, reply_count,
                   failed_count, replies_data, trace, result, exit_code, tokVars, parVars, fnVars, scrVars>>

\* A candidate passed over: its author is in replied_users (ig, fb), or the
\* limit is reached (li, tw, whose loop goes on without doing anything).
ReplySkip ==
    /\ pc = "reply"
    /\ cand <= cand_end
    /\ IF RepliesPerPost(platform)
       THEN ~UnderLimit(reply_count, reply_limit)
       ELSE /\ UnderLimit(reply_count, reply_limit)
            /\ AlreadyReplied(platform, Candidate(all_comments, cand).author,
                           replied_users)
    /\ cand' = cand + 1
    /\ UNCHANGED <<jobVars, pc, session, driver_bound, links, page, post_urls,
                   idx, all_comments, cand_end, replied_users, reply_count,
                   failed_count, replies_data, trace, result, exit_code, tokVars, parVars, fnVars, scrVars>>

(***************************************************************************)
(* One candidate: generate_reply, (ig, fb) driver.get of the comment's     *)
(* post, which is outside any try, the post call, which returns a boolean, *)
(* then the bookkeeping of the outcome.                                    *)
(***************************************************************************)
ReplyAttempt ==
    /\ pc = "reply"
    /\ cand <= cand_end
    /\ UnderLimit(reply_count, reply_limit)
    /\ ~AlreadyReplied(platform, Candidate(all_comments, cand).author,
                           replied_users)
    /\ \E llm_ok, nav_ok, post_ok \in BOOLEAN :
        LET c == Candidate(all_comments, cand)
            user == c.author
            reply == generate_reply(user, c.text, llm_ok)
            tr1 == trace \o <<EvGen(user, cand, llm_ok)>>
            tr2 == IF NavigatesBeforePost(platform)
                   THEN tr1 \o <<EvNav(c.post_url)>> ELSE tr1
            count == IF post_ok THEN reply_count + 1 ELSE reply_count
        IN
        IF NavigatesBeforePost(platform) /\ ~nav_ok
        THEN /\ Raise(tr2, HasTry(platform), driver_bound, session)
             /\ UNCHANGED <<cand, replied_users, reply_count, failed_count,
                            replies_data>>
        ELSE /\ trace' = tr2 \o <<EvPost(reply, post_ok)>>
                             \o AfterPost(platform, post_ok, count, reply_limit)
             /\ reply_count' = count
             /\ replied_users' = Replied(platform, replied_users, user, post_ok)
             /\ failed_count' = IF ~post_ok /\ platform = "fb"
                                THEN failed_count + 1 ELSE failed_count
             /\ replies_data' = Append(replies_data,
                                       ReplyAttemptRec(user, reply, post_ok))
             /\ cand' = cand + 1
             /\ UNCHANGED <<pc, session, exit_code>>
    /\ UNCHANGED <<jobVars, driver_bound, links, page, post_urls, idx,
                   all_comments, cand_end, result, tokVars, parVars, fnVars, scrVars>>

(***************************************************************************)
(* The end of a run without a fatal error.  ig, li, tw: print the result,  *)
(* log "completed" 100, then finally: driver.quit().  fb: driver.quit(),   *)
(* then print the result.  driver.quit() is outside any try: when it       *)
(* raises the run ends with exit status 1, on fb before the result.        *)
(***************************************************************************)
\* `comments_output[:100]` (ig, li, tw): the result shows that many comments.
OutputCap == 100

\* Mutant of ResultObject: totalComments counts the comments shown.
ResultObjectCountsShown ==
    [success |-> TRUE,
     totalComments |-> Min(Len(all_comments), OutputCap),
     totalReplies |-> reply_count,
     comments |-> IF HasTry(platform)
                  THEN SubSeq(all_comments, 1, Min(Len(all_comments), OutputCap))
                  ELSE all_comments,
     replies |-> replies_data,
     failed |-> failed_count]

\* Mutant of ResultObject: totalReplies counts the attempts.
ResultObjectCountsAttempts ==
    [success |-> TRUE,
     totalComments |-> Len(all_comments),
     totalReplies |-> Len(replies_data),
     comments |-> IF HasTry(platform)
                  THEN SubSeq(all_comments, 1, Min(Len(all_comments), OutputCap))
                  ELSE all_comments,
     replies |-> replies_data,
     failed |-> failed_count]

\* The object printed as the last JSON line (fb: with stats.failed).
ResultObject ==
    [success |-> TRUE,
     totalComments |-> Len(all_comments),
     totalReplies |-> reply_count,
     comments |-> IF HasTry(platform)
                  THEN SubSeq(all_comments, 1, Min(Len(all_comments), OutputCap))
                  ELSE all_comments,
     replies |-> replies_data,
     failed |-> failed_count]

Finish ==
    /\ pc = "finish"
    /\ \E quit_ok \in BOOLEAN :
        /\ result' = IF HasTry(platform) \/ quit_ok
                     THEN <<ResultObject>> ELSE << >>
        /\ trace' = IF HasTry(platform)
                    THEN trace \o <<EvResult, EvProgress("completed", 100, 1),
                                   EvQuit>>
                    ELSE trace \o <<EvQuit>>
                               \o (IF quit_ok THEN <<EvResult>> ELSE << >>)
        /\ exit_code' = IF quit_ok THEN 0 ELSE 1
    /\ session' = "closed"
    /\ pc' = "exited"
    /\ UNCHANGED <<jobVars, driver_bound, links, page, post_urls, idx,
                   all_comments, cand, cand_end, replied_users, reply_count,
                   failed_count, replies_data, tokVars, parVars, fnVars, scrVars>>

Next ==
    \/ Setup
    \/ SearchStart
    \/ SearchPage
    \/ SearchEnd
    \/ ExtractUrl
    \/ Collected
    \/ ReplyLoopEnd
    \/ ReplySkip
    \/ ReplyAttempt
    \/ Finish

Spec == Init /\ [][Next]_vars

\* A run is one sequential process: the interpreter always takes the next
\* step of the main block, and every driver call returns or raises.
LiveSpec == Init /\ [][Next]_vars /\ WF_vars(Next)

(***************************************************************************)
(* The search harvester alone: the state in which the main block calls it  *)
(* (the browser is open, ig, li and tw have logged "running" 5), and its   *)
(* steps up to the line after its call.                                    *)
(***************************************************************************)
HarvestInit ==
    /\ platform \in Platforms
    /\ reply_limit \in 0..MaxReplyLimit
    /\ google_pages \in 0..MaxPages
    /\ pc = "search"
    /\ session = "open"
    /\ driver_bound = TRUE
    /\ links = {}
    /\ page = 0
    /\ post_urls = << >>
    /\ idx = 1
    /\ all_comments = << >>
    /\ cand = 1
    /\ cand_end = 0
    /\ replied_users = {}
    /\ reply_count = 0
    /\ failed_count = 0
    /\ replies_data = << >>
    /\ trace = IF HasTry(platform)
               THEN <<EvOpen, EvProgress("running", 5, 1)>>
               ELSE <<EvOpen>>
    /\ result = << >>
    /\ exit_code = 0
    /\ TokIdle
    /\ ParIdle
    /\ FnIdle
    /\ ScrIdle

HarvestNext == SearchStart \/ SearchPage \/ SearchEnd

\* The harvester is sequential code: each of its driver calls returns or
\* raises, and the next statement runs.
HarvestSpec == HarvestInit /\ [][HarvestNext]_vars /\ WF_vars(HarvestNext)

(***************************************************************************)
(* The end of a run with --reply-limit 0 and --google-pages 1 whose search *)
(* found one post: the state after the harvester and its progress line,    *)
(* then the extraction of a page with up to MaxShown comments, the reply   *)
(* loops, which post nothing, and the result.  rd never gets this far.     *)
(***************************************************************************)
MaxShown == 101

\* The authors of the comments of a long page: all by one author.
LongBatches == {[k \in 1..n |-> "A"] : n \in 0..(MaxShown - Len(all_comments))}

ExtractMany == ExtractFrom(LongBatches)

ResultInit ==
    /\ platform \in {p \in Platforms : LogProgressWorks(p)}
    /\ reply_limit = 0
    /\ google_pages = 1
    /\ pc = "extract"
    /\ session = "open"
    /\ driver_bound = TRUE
    /\ links = {1}
    /\ page \in {0, 1}
    /\ post_urls = <<1>>
    /\ idx = 1
    /\ all_comments = << >>
    /\ cand = 1
    /\ cand_end = 0
    /\ replied_users = {}
    /\ reply_count = 0
    /\ failed_count = 0
    /\ replies_data = << >>
    /\ trace = (IF HasTry(platform)
                THEN <<EvOpen, EvProgress("running", 5, 1),
                       EvProgress("searching", 0, 1)>>
                ELSE <<EvOpen>>)
               \o <<CASE platform = "ig" -> EvProgress("searching", 30, 1)
                       [] platform = "fb" -> EvProgress("RUNNING", 10, 1)
                       [] OTHER -> EvProgress("running", 30, 1)>>
    /\ result = << >>
    /\ exit_code = 0
    /\ TokIdle
    /\ ParIdle
    /\ FnIdle
    /\ ScrIdle

ResultNext ==
    \/ ExtractMany
    \/ Collected
    \/ ReplyLoopEnd
    \/ ReplySkip
    \/ Finish

ResultSpec == ResultInit /\ [][ResultNext]_vars

(***************************************************************************)
(* Text.  A string is a sequence of characters; a character is a string    *)
(* of length one, and the two non-ASCII characters the code names are      *)
(* written by their code points, as are the control characters and the    *)
(* spaces that TLA+ has no escape for.                                     *)
(***************************************************************************)
Bullet == "U+2022"
Copyright == "U+00A9"

LowerCase == <<"a", "b", "c", "d", "e", "f", "g", "h", "i", "j", "k", "l", "m",
               "n", "o", "p", "q", "r", "s", "t", "u", "v", "w", "x", "y", "z">>
UpperCase == <<"A", "B", "C", "D", "E", "F", "G", "H", "I", "J", "K", "L", "M",
               "N", "O", "P", "Q", "R", "S", "T", "U", "V", "W", "X", "Y", "Z">>
Range(f) == {f[k] : k \in DOMAIN f}
Digits == {"0", "1", "2", "3", "4", "5", "6", "7", "8", "9"}

\* The characters of str.isspace: what str.strip and str.split remove and
\* what `\s` of a str pattern matches.
Whitespace ==
    {" ", "\t", "\n", "\r", "\f", "U+000B", "U+001C", "U+001D", "U+001E",
     "U+001F", "U+0085", "U+00A0", "U+1680", "U+2000", "U+2001", "U+2002",
     "U+2003", "U+2004", "U+2005", "U+2006", "U+2007", "U+2008", "U+2009",
     "U+200A", "U+2028", "U+2029", "U+202F", "U+205F", "U+3000"}

\* str.lower, character by character.
LowerChar(c) ==
    IF c \in Range(UpperCase)
    THEN LowerCase[CHOOSE k \in DOMAIN UpperCase : UpperCase[k] = c]
    ELSE c
Lower(s) == [k \in DOMAIN s |-> LowerChar(s[k])]

\* str.strip.
Strip(s) ==
    LET keep == {k \in DOMAIN s : s[k] \notin Whitespace}
    IN  IF keep = {} THEN << >>
        ELSE LET first == CHOOSE k \in keep : \A m \in keep : k <= m
                 last == CHOOSE k \in keep : \A m \in keep : m <= k
             IN  SubSeq(s, first, last)

\* " ".join(lines)
RECURSIVE JoinSpace(_)
JoinSpace(lines) ==
    IF lines = << >> THEN << >>
    ELSE IF Len(lines) = 1 THEN lines[1]
    ELSE lines[1] \o <<" ">> \o JoinSpace(Tail(lines))

\* `$` of a pattern used with re.match and no MULTILINE flag matches at the
\* end of the string and also before a newline that ends the string: the
\* string without such a final newline.
BeforeFinalNewline(s) ==
    IF s # << >> /\ s[Len(s)] = "\n" THEN SubSeq(s, 1, Len(s) - 1) ELSE s

AllIn(s, S) == \A k \in DOMAIN s : s[k] \in S

(***************************************************************************)
(* parse_ig_comment_blocks: its patterns.                                  *)
(***************************************************************************)
\* username_pattern = ^[A-Za-z0-9._]+$
HandleChars == Range(LowerCase) \cup Range(UpperCase) \cup Digits \cup {".", "_"}
HandleCore(s) == s # << >> /\ AllIn(s, HandleChars)
username_pattern(s) == HandleCore(s) \/ HandleCore(BeforeFinalNewline(s))

\* time_pattern = ^\d+\s*(h|d|w|m)$ with re.IGNORECASE
TimeUnits == {"h", "d", "w", "m"}
TimeCore(s) ==
    /\ Len(s) >= 2
    /\ LowerChar(s[Len(s)]) \in TimeUnits
    /\ \E a \in 1..(Len(s) - 1) :
          /\ AllIn(SubSeq(s, 1, a), Digits)
          /\ AllIn(SubSeq(s, a + 1, Len(s) - 1), Whitespace)
\* Mutant of time_pattern: without re.IGNORECASE.
time_pattern_lower_only(s) ==
    /\ TimeCore(s) \/ TimeCore(BeforeFinalNewline(s))
    /\ \A k \in DOMAIN s : s[k] \notin Range(UpperCase)

time_pattern(s) == TimeCore(s) \/ TimeCore(BeforeFinalNewline(s))

\* noise_patterns, all but the last with re.IGNORECASE
NoiseWords ==
    {<<"r", "e", "p", "l", "y">>,
     <<"l", "i", "k", "e">>,
     <<"l", "i", "k", "e", "s">>,
     <<"v", "i", "e", "w", " ", "a", "l", "l">>}
    \cup
    {<<"l", "o", "c", "a", "t", "i", "o", "n", "s">>,
     <<"t", "h", "r", "e", "a", "d", "s">>,
     <<"i", "n", "s", "t", "a", "g", "r", "a", "m", " ", "l", "i", "t", "e">>,
     <<"m", "e", "t", "a", " ", "a", "i">>,
     <<"m", "e", "t", "a", " ", "v", "e", "r", "i", "f", "i", "e", "d">>}
    \cup
    {<<"a", "b", "o", "u", "t">>,
     <<"b", "l", "o", "g">>,
     <<"j", "o", "b", "s">>,
     <<"h", "e", "l", "p">>,
     <<"a", "p", "i">>,
     <<"p", "r", "i", "v", "a", "c", "y">>,
     <<"t", "e", "r", "m", "s">>,
     <<"c", "o", "n", "t", "a", "c", "t", " ", "u", "p", "l", "o", "a", "d", "i", "n", "g", " ", "a", "n", "d", " ", "n", "o", "n", "-", "u", "s", "e", "r", "s">>}

is_noise(text) ==
    LET text_clean == Strip(text)
    IN  \/ text_clean = << >>
        \/ Lower(text_clean) \in NoiseWords
        \/ text_clean[1] = Copyright

\* re.match(r"^\d+\s+likes?$", raw.strip().lower())
LikesCount(text) ==
    LET t == Lower(Strip(text))
        tail(a) == SubSeq(t, a + 1, Len(t))
    IN  \E a \in 1..Len(t), b \in 1..Len(t) :
          /\ a < b
          /\ AllIn(SubSeq(t, 1, a), Digits)
          /\ AllIn(SubSeq(t, a + 1, b), Whitespace)
          /\ tail(b) \in {<<"l", "i", "k", "e">>, <<"l", "i", "k", "e", "s">>}

\* `username_pattern.match(x) and not is_noise(x)`
IsUsername(text) == username_pattern(text) /\ ~is_noise(text)

\* `raw_texts[i].strip() in ["•", ""]`
IsStrayBullet(text) == Strip(text) \in {<<Bullet>>, << >>}

(***************************************************************************)
(* parse_ig_comment_blocks: the scan.  Indices are 0-based as in the code. *)
(***************************************************************************)
FragAt(raw, k) == raw[k + 1]

\* `while i < len(raw_texts) and raw_texts[i].strip() in ["•", ""]: i += 1`
RECURSIVE SkipBullets(_, _)
SkipBullets(raw, j) ==
    IF j < Len(raw) /\ IsStrayBullet(FragAt(raw, j))
    THEN SkipBullets(raw, j + 1)
    ELSE j

\* `if i < len(raw_texts) and time_pattern.match(raw_texts[i])`
HasTimeAt(raw, j) == j < Len(raw) /\ time_pattern(FragAt(raw, j))

\* Mutant of Gather: noise and like counts are kept in the text.
RECURSIVE GatherKeepsNoise(_, _, _)
GatherKeepsNoise(raw, j, lines) ==
    IF j >= Len(raw) THEN [stop |-> j, lines |-> lines]
    ELSE IF IsUsername(FragAt(raw, j)) THEN [stop |-> j, lines |-> lines]
    ELSE IF time_pattern(FragAt(raw, j)) THEN [stop |-> j, lines |-> lines]
    ELSE GatherKeepsNoise(raw, j + 1, Append(lines, FragAt(raw, j)))

\* The inner loop that gathers the comment text from index j on: where it
\* stops and the lines it kept.
RECURSIVE Gather(_, _, _)
Gather(raw, j, lines) ==
    IF j >= Len(raw) THEN [stop |-> j, lines |-> lines]
    ELSE IF IsUsername(FragAt(raw, j)) THEN [stop |-> j, lines |-> lines]
    ELSE IF time_pattern(FragAt(raw, j)) THEN [stop |-> j, lines |-> lines]
    ELSE IF is_noise(FragAt(raw, j)) \/ LikesCount(FragAt(raw, j))
         THEN Gather(raw, j + 1, lines)
    ELSE Gather(raw, j + 1, Append(lines, FragAt(raw, j)))

\* `comment_text = " ".join(text_lines).strip()`
CommentText(lines) == Strip(JoinSpace(lines))

\* Mutant of ShouldEmit: a record is appended whatever the text.
ShouldEmitAnyText(username, timestamp, comment_text) ==
    username # << >> /\ timestamp # << >>

\* Mutant of ResumeAt: the scan goes back by one fragment, to the candidate
\* itself when no bullet was skipped.
ResumeBefore(j) == j - 1

\* Mutant of ResumeAt: the scan goes on after the fragment that was found
\* not to be a time.
ResumeAfter(j) == j + 1

\* `continue` of line 216: the scan goes on at the index the bullet loop
\* stopped at.
ResumeAt(j) == j

\* `if username and timestamp and comment_text:`
ShouldEmit(username, timestamp, comment_text) ==
    username # << >> /\ timestamp # << >> /\ comment_text # << >>

IgRecord(username, timestamp, comment_text) ==
    [author |-> username, time |-> timestamp, text |-> comment_text]

\* The fragments a page may hold, as extract_ig_comments passes them on:
\* stripped and not empty.
Fragments ==
    {<<"u", "1">>,                                  \* a handle
     <<"1", "2">>,                                  \* digits only
     <<"3", "d">>,                                  \* a time, also a handle
     <<"2", " ", "h">>,                             \* a time with a space
     <<"1", "y">>,                                  \* a year count
     <<"h", "i", "!">>,                             \* a short text
     <<"s", "o", " ", "n", "i", "c", "e", "!">>,    \* a text
     <<"R", "e", "p", "l", "y">>,                   \* UI text
     <<"5", " ", "l", "i", "k", "e", "s">>,         \* a like count
     <<Copyright, "2">>,                            \* a copyright line
     <<Bullet>>}

MaxFrags == 4

runFixed ==
    /\ platform = "ig"
    /\ reply_limit = 0
    /\ google_pages = 0
    /\ RunIdle

TokInit ==
    /\ raw_texts \in SeqsUpTo(Fragments, MaxFrags)
    /\ i = 0
    /\ comments = << >>
    /\ tok_pc = "scan"
    /\ runFixed
    /\ ParIdle
    /\ FnIdle
    /\ ScrIdle

\* An outer iteration at a fragment that is no username candidate.
TokSkip ==
    /\ tok_pc = "scan"
    /\ i < Len(raw_texts)
    /\ ~IsUsername(FragAt(raw_texts, i))
    /\ i' = i + 1
    /\ UNCHANGED <<raw_texts, comments, tok_pc, runVars, parVars, fnVars, scrVars>>

\* An outer iteration at a username candidate that no timestamp follows.
TokAbandon ==
    /\ tok_pc = "scan"
    /\ i < Len(raw_texts)
    /\ IsUsername(FragAt(raw_texts, i))
    /\ LET j == SkipBullets(raw_texts, i + 1)
       IN  /\ ~HasTimeAt(raw_texts, j)
           /\ i' = ResumeAt(j)
    /\ UNCHANGED <<raw_texts, comments, tok_pc, runVars, parVars, fnVars, scrVars>>

\* An outer iteration at a username candidate followed by a timestamp: the
\* text is gathered and the record appended when ShouldEmit says so.
TokCollect ==
    /\ tok_pc = "scan"
    /\ i < Len(raw_texts)
    /\ IsUsername(FragAt(raw_texts, i))
    /\ LET j == SkipBullets(raw_texts, i + 1)
       IN  /\ HasTimeAt(raw_texts, j)
           /\ LET username == FragAt(raw_texts, i)
                  timestamp == FragAt(raw_texts, j)
                  g == Gather(raw_texts, j + 1, << >>)
                  comment_text == CommentText(g.lines)
              IN  /\ i' = g.stop
                  /\ comments' = IF ShouldEmit(username, timestamp, comment_text)
                                 THEN Append(comments,
                                             IgRecord(username, timestamp, comment_text))
                                 ELSE comments
    /\ UNCHANGED <<raw_texts, tok_pc, runVars, parVars, fnVars, scrVars>>

\* `while i < len(raw_texts)` ends; `return comments`.
TokReturn ==
    /\ tok_pc = "scan"
    /\ i >= Len(raw_texts)
    /\ tok_pc' = "done"
    /\ UNCHANGED <<raw_texts, i, comments, runVars, parVars, fnVars, scrVars>>

TokNext == TokSkip \/ TokAbandon \/ TokCollect \/ TokReturn

TokSpec == TokInit /\ [][TokNext]_vars

(***************************************************************************)
(* parse_ig_comment_blocks on longer inputs of fewer kinds of fragment:    *)
(* long enough for two comments.  The function is a sequential loop, so    *)
(* its next iteration always runs.                                         *)
(***************************************************************************)
FewFragments ==
    {<<"u", "1">>,                                  \* a handle
     <<"1", "2">>,                                  \* digits only, a handle
     <<"3", "d">>,                                  \* a time, also a handle
     <<"h", "i", "!">>}                             \* a text

MaxLongFrags == 6

\* extract_ig_comments has not yet called the function.
TokLongInit ==
    /\ raw_texts = << >>
    /\ i = 0
    /\ comments = << >>
    /\ tok_pc = "call"
    /\ runFixed
    /\ ParIdle
    /\ FnIdle
    /\ ScrIdle

\* `parsed = parse_ig_comment_blocks(raw_texts)`: the call, with the
\* fragments of the page; `comments = []`, `i = 0`.
TokCall ==
    /\ tok_pc = "call"
    /\ raw_texts' \in SeqsUpTo(FewFragments, MaxLongFrags)
    /\ i' = 0
    /\ comments' = << >>
    /\ tok_pc' = "scan"
    /\ UNCHANGED <<runVars, parVars, fnVars, scrVars>>

TokLiveNext == TokCall \/ TokNext

\* The condition under which TokCollect can take a step: its remaining
\* conjuncts assign i and comments, and Gather stops after the timestamp.
CollectGuard ==
    /\ tok_pc = "scan"
    /\ i < Len(raw_texts)
    /\ IsUsername(FragAt(raw_texts, i))
    /\ HasTimeAt(raw_texts, SkipBullets(raw_texts, i + 1))

\* Weak fairness of every step of the function; for TokCollect it is
\* written out, with CollectGuard for ENABLED <<TokCollect>>_vars.
TokLiveSpec ==
    /\ TokLongInit
    /\ [][TokLiveNext]_vars
    /\ WF_vars(TokCall)
    /\ WF_vars(TokSkip)
    /\ WF_vars(TokAbandon)
    /\ WF_vars(TokReturn)
    /\ ([]<>~CollectGuard \/ []<><<TokCollect>>_vars)

(***************************************************************************)
(* Regular expressions over character sequences.  Positions are 1-based;   *)
(* a match that starts at p is described by the position just after it, 0  *)
(* meaning that there is no match at p.                                    *)
(***************************************************************************)
MidDot == "U+00B7"

\* \w: letters, digits and the underscore.  Of the non-ASCII characters the
\* scripts name only U+00E2 is a letter.
WordChars == Range(LowerCase) \cup Range(UpperCase) \cup Digits \cup {"_", "U+00E2"}

\* The character at position p, "" outside the string.
At(s, p) == IF p \in DOMAIN s THEN s[p] ELSE ""

\* \b at the gap before position p.
Boundary(s, p) == (At(s, p - 1) \in WordChars) # (At(s, p) \in WordChars)

\* The literal lit starts at p.
HasAt(s, p, lit) ==
    /\ p >= 1
    /\ p + Len(lit) - 1 <= Len(s)
    /\ SubSeq(s, p, p + Len(lit) - 1) = lit

\* The same under re.IGNORECASE.
HasAtCI(s, p, lit) ==
    /\ p >= 1
    /\ p + Len(lit) - 1 <= Len(s)
    /\ Lower(SubSeq(s, p, p + Len(lit) - 1)) = Lower(lit)

\* The end of the longest run of characters of S that starts at p (greedy
\* S*): the first position from p on that holds no character of S.
RECURSIVE RunEnd(_, _, _)
RunEnd(s, p, S) ==
    IF p <= Len(s) /\ s[p] \in S THEN RunEnd(s, p + 1, S) ELSE p

\* The same for the characters outside S (greedy \S*).
RECURSIVE RunEndNot(_, _, _)
RunEndNot(s, p, S) ==
    IF p <= Len(s) /\ s[p] \notin S THEN RunEndNot(s, p + 1, S) ELSE p

\* \bword\b under re.IGNORECASE at p.
WordAtCI(s, p, word) ==
    IF Boundary(s, p) /\ HasAtCI(s, p, word) /\ Boundary(s, p + Len(word))
    THEN p + Len(word) ELSE 0

\* int() of a run of decimal digits.
DigitValue(c) ==
    CASE c = "0" -> 0 [] c = "1" -> 1 [] c = "2" -> 2 [] c = "3" -> 3
      [] c = "4" -> 4 [] c = "5" -> 5 [] c = "6" -> 6 [] c = "7" -> 7
      [] c = "8" -> 8 [] c = "9" -> 9
RECURSIVE ToInt(_)
ToInt(ds) ==
    IF ds = << >> THEN 0
    ELSE 10 * ToInt(SubSeq(ds, 1, Len(ds) - 1)) + DigitValue(ds[Len(ds)])

(***************************************************************************)
(* facebook_scraper.py clean_comment: its substitutions, in order.         *)
(***************************************************************************)
WordLike == <<"L", "i", "k", "e">>
WordEdited == <<"E", "d", "i", "t", "e", "d">>
WordFollow == <<"F", "o", "l", "l", "o", "w">>
WordReply == <<"R", "e", "p", "l", "y">>
HttpPrefix == <<"h", "t", "t", "p", ":", "/", "/">>
HttpsPrefix == <<"h", "t", "t", "p", "s", ":", "/", "/">>

\* (Anonymous participant\s*\d*\s*)+ matched at p: the end of the last
\* repetition, 0 if there is none.
TextAnonymousParticipant == <<"A", "n", "o", "n", "y", "m", "o", "u", "s", " ", "p", "a", "r", "t", "i", "c", "i", "p", "a", "n", "t">>
RECURSIVE AnonEnd(_, _)
AnonEnd(s, p) ==
    IF ~HasAt(s, p, TextAnonymousParticipant) THEN 0
    ELSE LET q1 == RunEnd(s, p + Len(TextAnonymousParticipant), Whitespace)
             q2 == RunEnd(s, q1, Digits)
             q3 == RunEnd(s, q2, Whitespace)
         IN  IF AnonEnd(s, q3) # 0 THEN AnonEnd(s, q3) ELSE q3

\* The pattern of each substitution of clean_comment and clean_username,
\* matched at p.
MatchEnd(step, s, p) ==
    CASE step = "anon" -> AnonEnd(s, p)
      [] step = "url" ->                     \* https?://\S+
           LET q == IF HasAt(s, p, HttpPrefix) THEN p + Len(HttpPrefix)
                    ELSE IF HasAt(s, p, HttpsPrefix) THEN p + Len(HttpsPrefix)
                    ELSE 0
           IN  IF q # 0 /\ RunEndNot(s, q, Whitespace) > q
               THEN RunEndNot(s, q, Whitespace) ELSE 0
      [] step = "likelike" ->                \* \bLike\b\s*\bLike\b, IGNORECASE
           LET q == RunEnd(s, p + Len(WordLike), Whitespace)
           IN  IF WordAtCI(s, p, WordLike) # 0 THEN WordAtCI(s, q, WordLike)
               ELSE 0
      [] step = "like" ->                    \* \s*\bLike\b\s*
           LET q == RunEnd(s, p, Whitespace)
           IN  IF /\ Boundary(s, q)
                  /\ HasAt(s, q, WordLike)
                  /\ Boundary(s, q + Len(WordLike))
               THEN RunEnd(s, q + Len(WordLike), Whitespace) ELSE 0
      [] step = "edited" -> WordAtCI(s, p, WordEdited)   \* \bEdited\b
      [] step = "count" ->                   \* \b(\d+)\s+\1\b
           LET e1 == RunEnd(s, p, Digits)
               num == SubSeq(s, p, e1 - 1)
               e2 == RunEnd(s, e1, Whitespace)
           IN  IF /\ Boundary(s, p)
                  /\ e1 > p
                  /\ e2 > e1
                  /\ HasAt(s, e2, num)
                  /\ Boundary(s, e2 + Len(num))
               THEN e2 + Len(num) ELSE 0
      [] step = "follow" ->                  \* MidDot\s*Follow\s*MidDot?\s*Follow
           LET q1 == RunEnd(s, p + 1, Whitespace)
               q2 == RunEnd(s, q1 + Len(WordFollow), Whitespace)
               q3 == IF At(s, q2) = MidDot THEN q2 + 1 ELSE q2
               q4 == RunEnd(s, q3, Whitespace)
           IN  IF /\ At(s, p) = MidDot
                  /\ HasAt(s, q1, WordFollow)
                  /\ HasAt(s, q4, WordFollow)
               THEN q4 + Len(WordFollow) ELSE 0
      [] step = "reply" -> WordAtCI(s, p, WordReply)     \* \bReply\b
      [] step = "spaces" ->                  \* \s+
           IF RunEnd(s, p, Whitespace) > p THEN RunEnd(s, p, Whitespace) ELSE 0

\* re.sub(pattern, rep, s): the leftmost matches from p on, none overlapping,
\* each replaced by rep.
RECURSIVE Sub(_, _, _, _)
Sub(step, rep, s, p) ==
    IF p > Len(s) THEN << >>
    ELSE IF MatchEnd(step, s, p) # 0
         THEN rep \o Sub(step, rep, s, MatchEnd(step, s, p))
         ELSE <<s[p]>> \o Sub(step, rep, s, p + 1)

\* str.replace('\n', ' ')
NewlinesToSpaces(s) == [k \in DOMAIN s |-> IF s[k] = "\n" THEN " " ELSE s[k]]

clean_comment(comment_text) ==
    IF comment_text = << >> THEN << >>
    ELSE LET s1 == Sub("url", << >>, comment_text, 1)
             s2 == Sub("likelike", << >>, s1, 1)
             s3 == Strip(Sub("like", <<" ">>, s2, 1))
             s4 == Sub("edited", << >>, s3, 1)
             s5 == Sub("count", << >>, s4, 1)
             s6 == Sub("follow", << >>, s5, 1)
             s7 == Sub("reply", << >>, s6, 1)
             s8 == NewlinesToSpaces(s7)
         IN  Strip(Sub("spaces", <<" ">>, s8, 1))

(***************************************************************************)
(* facebook_scraper.py clean_username.  Its argument may be None: a record *)
(* whose found says whether the text is there.                             *)
(***************************************************************************)
\* str.split(): the runs of characters that are not whitespace, from p on.
RECURSIVE SplitWords(_, _)
SplitWords(s, p) ==
    IF p > Len(s) THEN << >>
    ELSE IF s[p] \in Whitespace THEN SplitWords(s, p + 1)
    ELSE <<SubSeq(s, p, RunEndNot(s, p, Whitespace) - 1)>>
            \o SplitWords(s, RunEndNot(s, p, Whitespace))

\* parts[:n]
FirstWords(parts, n) == SubSeq(parts, 1, IF n < Len(parts) THEN n ELSE Len(parts))

clean_username(username_text) ==
    IF ~username_text.found \/ username_text.text = << >> THEN <<"U", "n", "k", "n", "o", "w", "n">>
    ELSE LET s1 == Sub("anon", TextAnonymousParticipant, username_text.text, 1)
             s2 == Strip(Sub("spaces", <<" ">>, s1, 1))
             parts == SplitWords(s2, 1)
         IN  IF HasAt(s2, 1, TextAnonymousParticipant)
             THEN TextAnonymousParticipant
             ELSE IF Len(parts) > 0 THEN JoinSpace(FirstWords(parts, 3))
             ELSE IF s2 # << >> THEN s2 ELSE <<"U", "n", "k", "n", "o", "w", "n">>

(***************************************************************************)
(* facebook_scraper.py fb_time_to_hours_from_comment.  A value that may be *)
(* None is a record: found says whether it is there.  Hours are n over d.  *)
(***************************************************************************)
NoHours == [found |-> FALSE, n |-> 0, d |-> 1]
Hours(n, d) == [found |-> TRUE, n |-> n, d |-> d]

HourUnits == {"m", "h", "d", "w", "y"}

\* \b(\d+)\s*(m|h|d|w|y)\b matched at p of the lower-cased text: the
\* position of the unit, 0 if there is no match at p.
TimeUnitAt(s, p) ==
    LET e1 == RunEnd(s, p, Digits)
        e2 == RunEnd(s, e1, Whitespace)
    IN  IF /\ Boundary(s, p)
           /\ e1 > p
           /\ At(s, e2) \in HourUnits
           /\ Boundary(s, e2 + 1)
        THEN e2 ELSE 0

\* re.search: the leftmost position with a match, 0 if none.
RECURSIVE TimeSearch(_, _)
TimeSearch(s, p) ==
    IF p > Len(s) THEN 0
    ELSE IF TimeUnitAt(s, p) # 0 THEN p
    ELSE TimeSearch(s, p + 1)

\* Mutant of fb_time_to_hours_from_comment: minutes become whole hours
\* (value // 60).
fb_time_whole_hours(time_raw) ==
    IF ~time_raw.found THEN NoHours
    ELSE LET s == Lower(time_raw.text)
             p == TimeSearch(s, 1)
         IN  IF p = 0 THEN NoHours
             ELSE LET value == ToInt(SubSeq(s, p, RunEnd(s, p, Digits) - 1))
                      unit == s[TimeUnitAt(s, p)]
                  IN  CASE unit = "m" -> Hours(value \div 60, 1)
                        [] unit = "h" -> Hours(value, 1)
                        [] unit = "d" -> Hours(value * 24, 1)
                        [] unit = "w" -> Hours(value * 168, 1)
                        [] unit = "y" -> Hours(value * 8760, 1)

fb_time_to_hours_from_comment(time_raw) ==
    IF ~time_raw.found THEN NoHours
    ELSE LET s == Lower(time_raw.text)
             p == TimeSearch(s, 1)
         IN  IF p = 0 THEN NoHours
             ELSE LET value == ToInt(SubSeq(s, p, RunEnd(s, p, Digits) - 1))
                      unit == s[TimeUnitAt(s, p)]
                  IN  CASE unit = "m" -> Hours(value, 60)
                        [] unit = "h" -> Hours(value, 1)
                        [] unit = "d" -> Hours(value * 24, 1)
                        [] unit = "w" -> Hours(value * 168, 1)
                        [] unit = "y" -> Hours(value * 8760, 1)

(***************************************************************************)
(* reddit_scraper.py: META_PATTERN, normalize_time, clean_comment_text.    *)
(***************************************************************************)
\* A value that may be None: a text, or nothing.
NoText == [found |-> FALSE, text |-> << >>]
SomeText(s) == [found |-> TRUE, text |-> s]

\* [A-Za-z0-9_-]
MetaUserChars == Range(LowerCase) \cup Range(UpperCase) \cup Digits \cup {"_", "-"}
\* The character class between the name and the age: the bullet, and the
\* three characters of its mis-decoded form.
MetaBullets == {Bullet, "U+00E2", "U+20AC", "U+00A2"}
AsciiLetters == Range(LowerCase) \cup Range(UpperCase)

\* META_PATTERN matched at p: the groups, or ok = FALSE.
MetaAt(s, p) ==
    LET e1 == RunEnd(s, p, MetaUserChars)
        e2 == RunEnd(s, e1, Whitespace)
        e3 == RunEnd(s, e2 + 1, Whitespace)
        e4 == RunEnd(s, e3, Digits)
        e5 == RunEnd(s, e4, Whitespace)
        e6 == RunEnd(s, e5, AsciiLetters)
    IN  IF /\ e1 > p
           /\ e2 > e1
           /\ At(s, e2) \in MetaBullets
           /\ e3 > e2 + 1
           /\ e4 > e3
           /\ e6 > e5
        THEN [ok |-> TRUE,
              username |-> SubSeq(s, p, e1 - 1),
              value |-> ToInt(SubSeq(s, e3, e4 - 1)),
              unit |-> SubSeq(s, e5, e6 - 1)]
        ELSE [ok |-> FALSE, username |-> << >>, value |-> 0, unit |-> << >>]

\* META_PATTERN.search(s): the leftmost match from p on.
RECURSIVE MetaSearch(_, _)
MetaSearch(s, p) ==
    IF p > Len(s) THEN MetaAt(s, Len(s) + 1)
    ELSE IF MetaAt(s, p).ok THEN MetaAt(s, p)
    ELSE MetaSearch(s, p + 1)

REDUNDANT_LINES == {<<"u", "p", "v", "o", "t", "e">>,
                    <<"d", "o", "w", "n", "v", "o", "t", "e">>,
                    <<"r", "e", "p", "l", "y">>,
                    <<"a", "w", "a", "r", "d">>,
                    <<"s", "h", "a", "r", "e">>,
                    <<"f", "o", "l", "l", "o", "w">>,
                    <<"r", "e", "p", "o", "r", "t">>,
                    <<"s", "a", "v", "e">>}

\* The age as written by normalize_time: a number and "h" or "y", or None.
NoAge == [found |-> FALSE, n |-> 0, unit |-> ""]
Age(n, unit) == [found |-> TRUE, n |-> n, unit |-> unit]

normalize_time(value, unit) ==
    LET u == Lower(unit)
    IN  IF HasAt(u, 1, <<"m", "i", "n">>)
        THEN Age(IF value \div 60 >= 1 THEN value \div 60 ELSE 1, "h")
        ELSE IF HasAt(u, 1, <<"h">>) THEN Age(value, "h")
        ELSE IF HasAt(u, 1, <<"d">>) THEN Age(value * 24, "h")
        ELSE IF HasAt(u, 1, <<"y">>) THEN Age(value, "y")
        ELSE NoAge

\* The characters at which str.splitlines breaks a text.
LineBreaks ==
    {"\n", "\r", "\f", "U+000B", "U+001C", "U+001D", "U+001E", "U+0085",
     "U+2028", "U+2029"}

\* [l.strip() for l in raw_text.splitlines() if l.strip()], from p on.
RECURSIVE StrippedLines(_, _)
StrippedLines(s, p) ==
    IF p > Len(s) THEN << >>
    ELSE LET e == RunEndNot(s, p, LineBreaks)
             line == Strip(SubSeq(s, p, e - 1))
         IN  (IF line = << >> THEN << >> ELSE <<line>>)
                \o StrippedLines(s, e + 1)

\* The lines clean_comment_text drops: interface words, vote counts, the
\* name-and-age line, lone bullets.
IsRedditJunk(line) ==
    \/ Lower(line) \in REDUNDANT_LINES
    \/ (line # << >> /\ AllIn(line, Digits))
    \/ MetaSearch(line, 1).ok
    \/ line \in {<<Bullet>>, <<"U+00E2", "U+20AC", "U+00A2">>}

clean_comment_text(raw_text) ==
    IF ~raw_text.found THEN NoText
    ELSE LET cleaned == SelectSeq(StrippedLines(raw_text.text, 1),
                                  LAMBDA line : ~IsRedditJunk(line))
         IN  IF cleaned = << >> THEN NoText
             ELSE SomeText(Strip(JoinSpace(cleaned)))

(***************************************************************************)
(* Containers: the DOM elements handed to parse_blocks (fb),               *)
(* parse_comments (li), parse_replies (tw) and the loop of                 *)
(* extract_comments (rd), described by what the parser's lookups yield.    *)
(*   stale: every lookup on the element raises;                            *)
(*   user:  the text of the author element (fb the first link, li the      *)
(*          title span, tw the first ltr span, rd the /user/ link), not    *)
(*          found when find_element raises;                                *)
(*   body:  the texts of the body elements in document order (fb every     *)
(*          span, li and tw the one body element or none, rd block.text);  *)
(*   time:  the text of the time element (fb abbr, li time), not found     *)
(*          when there is no such element;                                 *)
(*   aria:  the aria-label of fb's abbr, not found when the attribute is   *)
(*          absent;                                                        *)
(*   btn:   whether tw's reply button is there.                            *)
(***************************************************************************)
Container(stale, user, body, time, aria, btn) ==
    [stale |-> stale, user |-> user, body |-> body, time |-> time,
     aria |-> aria, btn |-> btn]

\* A record of the list a parser builds.  age is rd's column `time`.
ParsedRec(username, comment, time_raw) ==
    [post_url |-> 1, username |-> username, comment |-> comment,
     time_raw |-> time_raw, age |-> NoAge]

\* What one iteration of the parser's loop does with a container: keep says
\* whether a record is appended, rec is the record.
Skipped == [keep |-> FALSE, rec |-> ParsedRec(NoText, NoText, NoText)]
Kept(rec) == [keep |-> TRUE, rec |-> rec]

\* The texts that are not empty: `s.text for s in ... if s.text`.
NonEmpty(texts) == SelectSeq(texts, LAMBDA x : x # << >>)

TextAnonymous == <<"A", "n", "o", "n", "y", "m", "o", "u", "s">>
TextUnknown == <<"U", "n", "k", "n", "o", "w", "n">>

\* facebook_scraper.py parse_blocks, the body of its loop.
parse_blocks(b) ==
    IF b.stale \/ ~b.user.found THEN Skipped
    ELSE LET username == Strip(b.user.text)
             text == Strip(JoinSpace(NonEmpty(b.body)))
             time_raw == IF ~b.time.found THEN NoText
                         ELSE IF b.aria.found /\ b.aria.text # << >> THEN b.aria
                         ELSE b.time
         IN  IF Len(text) < 5 THEN Skipped
             ELSE Kept(ParsedRec(
                     SomeText(IF username # << >> THEN username ELSE TextAnonymous),
                     SomeText(text), time_raw))

\* linkedin_scraper.py parse_comments, the body of its loop.
parse_comments(b) ==
    IF b.stale \/ ~b.user.found \/ b.body = << >> THEN Skipped
    ELSE LET username == Strip(b.user.text)
             comment == Strip(b.body[1])
             time_raw == IF b.time.found THEN SomeText(Strip(b.time.text))
                         ELSE NoText
         IN  IF Len(comment) < 5 THEN Skipped
             ELSE Kept(ParsedRec(SomeText(username), SomeText(comment), time_raw))

\* twitter_scraper.py parse_replies, the body of its loop.
parse_replies(b) ==
    IF b.stale \/ b.body = << >> THEN Skipped
    ELSE LET comment == Strip(b.body[1])
         IN  IF Len(comment) < 5 THEN Skipped
             ELSE IF ~b.user.found \/ ~b.btn THEN Skipped
             ELSE Kept(ParsedRec(SomeText(Strip(b.user.text)), SomeText(comment),
                                 NoText))

\* str.replace(old, ""): every occurrence of old removed, left to right.
RECURSIVE Remove(_, _, _)
Remove(s, old, p) ==
    IF p > Len(s) THEN << >>
    ELSE IF HasAt(s, p, old) THEN Remove(s, old, p + Len(old))
    ELSE <<s[p]>> \o Remove(s, old, p + 1)

\* reddit_scraper.py extract_comments, the body of its loop.
extract_comments(b) ==
    IF b.stale \/ b.body = << >> THEN Skipped
    ELSE LET full_text == Strip(b.body[1])
             author == IF b.user.found
                       THEN Remove(Strip(b.user.text), <<"u", "/">>, 1)
                       ELSE IF MetaSearch(full_text, 1).ok
                       THEN MetaSearch(full_text, 1).username
                       ELSE TextUnknown
             text == clean_comment_text(SomeText(full_text))
         IN  IF Len(full_text) < 5 THEN Skipped
             ELSE IF ~text.found \/ Len(text.text) < 5 THEN Skipped
             ELSE Kept(ParsedRec(SomeText(author), text, NoText))

\* The loop body of the platform's parser.
ParseOne(p, b) ==
    CASE p = "fb" -> parse_blocks(b)
      [] p = "li" -> parse_comments(b)
      [] p = "tw" -> parse_replies(b)
      [] p = "rd" -> extract_comments(b)

\* reddit_scraper.py process_reddit_csv, for one row: author and time are
\* overwritten from META_PATTERN on the row's text, the text is cleaned again.
process_reddit_csv(r) ==
    LET text == IF r.comment.found THEN r.comment.text ELSE << >>
        match == MetaSearch(text, 1)
    IN  [post_url |-> r.post_url,
         username |-> IF match.ok THEN SomeText(match.username) ELSE NoText,
         comment |-> clean_comment_text(SomeText(text)),
         time_raw |-> r.time_raw,
         age |-> IF match.ok THEN normalize_time(match.value, match.unit)
                 ELSE NoAge]

\* Mutant of WithinHours: the comparison is strict.
WithinHoursStrict(h, limit) == h.found /\ h.n < limit * h.d

\* df["hours_ago"] <= limit, for one row; a row without hours compares false.
WithinHours(h, limit) == h.found /\ h.n <= limit * h.d

\* (...).sum() of a boolean column.
CountTrue(flags) == Cardinality({k \in DOMAIN flags : flags[k]})

\* facebook_scraper.py lines 416-433: the counts over the comment list.
FbStats(rows) ==
    LET hours_ago == [k \in DOMAIN rows |->
                         fb_time_to_hours_from_comment(rows[k].time_raw)]
    IN  IF rows = << >> THEN NoStats
        ELSE [total |-> Len(rows),
              last_1h |-> CountTrue([k \in DOMAIN rows |->
                                        WithinHours(hours_ago[k], 1)]),
              last_24h |-> CountTrue([k \in DOMAIN rows |->
                                         WithinHours(hours_ago[k], 24)])]

(***************************************************************************)
(* The containers a page can hold, per platform.                           *)
(***************************************************************************)
Absent == NoText
T_Ann == <<"A", "n", "n">>
T_Bob == <<"B", "o", "b">>
T_Great == <<"G", "r", "e", "a", "t", " ", "p", "o", "s", "t", "!">>
T_Short == <<"o", "k">>
T_LikeLikeReply == <<<<"L", "i", "k", "e">>, <<"L", "i", "k", "e">>, <<"R", "e", "p", "l", "y">>>>

FbContainers ==
    {Container(FALSE, SomeText(T_Ann), <<T_Great>>, SomeText(<< >>), SomeText(<<"1", "h">>), FALSE),
     Container(FALSE, Absent, <<T_Great>>, SomeText(<<"2", "h">>), Absent, FALSE),
     Container(FALSE, SomeText(<<" ">>), <<<<"s", "o">>, << >>, <<"t", "r", "u", "e">>>>, Absent, Absent, FALSE),
     Container(FALSE, SomeText(T_Bob), T_LikeLikeReply, SomeText(<<"9", "0", "m">>), Absent, FALSE),
     Container(FALSE, SomeText(T_Ann), <<T_Short>>, SomeText(<<"1", "h">>), Absent, FALSE),
     Container(FALSE, SomeText(T_Bob), <<T_Great>>, SomeText(<<"Y", "e", "s", "t", "e", "r", "d", "a", "y">>), SomeText(<< >>), FALSE),
     Container(FALSE, SomeText(T_Ann), <<T_Great>>, SomeText(<<"1", " ", "D">>), Absent, FALSE),
     Container(FALSE, SomeText(T_Bob), <<T_Great>>, SomeText(<< >>), SomeText(<<"2", "d", " ", "a", "g", "o">>), FALSE),
     Container(TRUE, SomeText(T_Ann), <<T_Great>>, SomeText(<<"1", "h">>), Absent, FALSE)}

LiContainers ==
    {Container(FALSE, SomeText(T_Ann), <<T_Great>>, SomeText(<<"2", "h", " ">>), Absent, FALSE),
     Container(FALSE, SomeText(T_Bob), << >>, SomeText(<<"2", "h">>), Absent, FALSE),
     Container(FALSE, Absent, <<T_Great>>, SomeText(<<"2", "h">>), Absent, FALSE),
     Container(FALSE, SomeText(<< >>), <<T_Great>>, SomeText(<<"1", "d">>), Absent, FALSE),
     Container(FALSE, SomeText(T_Bob), <<<<" ", "o", "k", " ">>>>, SomeText(<<"2", "h">>), Absent, FALSE),
     Container(FALSE, SomeText(T_Bob), <<T_Great>>, Absent, Absent, FALSE),
     Container(TRUE, SomeText(T_Ann), <<T_Great>>, Absent, Absent, FALSE)}

TwContainers ==
    {Container(FALSE, SomeText(T_Ann), <<T_Great>>, Absent, Absent, TRUE),
     Container(FALSE, SomeText(T_Bob), << >>, Absent, Absent, TRUE),
     Container(FALSE, Absent, <<T_Great>>, Absent, Absent, TRUE),
     Container(FALSE, SomeText(<<" ">>), <<T_Great>>, Absent, Absent, TRUE),
     Container(FALSE, SomeText(T_Bob), <<T_Short>>, Absent, Absent, TRUE),
     Container(FALSE, SomeText(T_Bob), <<T_Great>>, Absent, Absent, FALSE),
     Container(TRUE, SomeText(T_Ann), <<T_Great>>, Absent, Absent, TRUE)}

RdContainers ==
    {Container(FALSE, SomeText(<<"u", "/", "b", "o", "b">>), <<<<"b", "o", "b", " ", "U+2022", " ", "3", "h", " ", "a", "g", "o", "\n", "G", "r", "e", "a", "t", " ", "p", "o", "s", "t", "!", "\n", "R", "e", "p", "l", "y", "\n", "S", "h", "a", "r", "e">>>>, Absent, Absent, FALSE),
     Container(FALSE, Absent, <<<<"a", "n", "n", " ", "U+00E2", "U+20AC", "U+00A2", " ", "9", "0", " ", "m", "i", "n", "\n", "1", "2", "\n", "G", "r", "e", "a", "t", " ", "p", "o", "s", "t", "!">>>>, Absent, Absent, FALSE),
     Container(FALSE, Absent, <<T_Great>>, Absent, Absent, FALSE),
     Container(FALSE, SomeText(<< >>), <<T_Great>>, Absent, Absent, FALSE),
     Container(FALSE, SomeText(<<"u", "/", "b", "o", "b">>), <<<<"U", "p", "v", "o", "t", "e", "\n", "R", "e", "p", "l", "y", "\n", "7">>>>, Absent, Absent, FALSE),
     Container(FALSE, SomeText(<<"u", "/", "a", "n", "n">>), <<<<"a", "n", "n", " ", "U+2022", "\n", "3", " ", "h", "\n", "o", "k">>>>, Absent, Absent, FALSE),
     Container(FALSE, SomeText(<<"u", "/", "a", "n", "n">>), <<<<"o", "k", "\n", "S", "a", "v", "e">>>>, Absent, Absent, FALSE),
     Container(TRUE, SomeText(<<"u", "/", "b", "o", "b">>), <<T_Great>>, Absent, Absent, FALSE)}

Containers(p) ==
    CASE p = "fb" -> FbContainers
      [] p = "li" -> LiContainers
      [] p = "tw" -> TwContainers
      [] p = "rd" -> RdContainers

ContainerPlatforms == {"fb", "li", "tw", "rd"}

MaxBlocks == 3

(***************************************************************************)
(* The parser at work on a batch of containers, then what the caller does  *)
(* with the list: fb computes its counts, rd passes it through             *)
(* process_reddit_csv.                                                     *)
(***************************************************************************)
ParInit ==
    /\ par_platform \in ContainerPlatforms
    /\ blocks \in SeqsUpTo(Containers(par_platform), MaxBlocks)
    /\ bi = 0
    /\ data = << >>
    /\ par_pc = "loop"
    /\ stats = NoStats
    /\ runFixed
    /\ TokIdle
    /\ FnIdle
    /\ ScrIdle

\* Mutant of AfterError: the loop is left at the first container that
\* cannot be parsed.
AfterErrorBreaks(n, k) == n

\* How many of the n containers are done once the one at position k was
\* left out: `continue` goes on with the next container.
AfterError(n, k) == k

\* One iteration of `for block in blocks`.
ParseStep ==
    /\ par_pc = "loop"
    /\ bi < Len(blocks)
    /\ LET out == ParseOne(par_platform, blocks[bi + 1])
       IN  IF out.keep
           THEN /\ data' = Append(data, out.rec)
                /\ bi' = bi + 1
           ELSE /\ data' = data
                /\ bi' = AfterError(Len(blocks), bi + 1)
    /\ UNCHANGED <<par_platform, blocks, par_pc, stats, runVars, tokVars, fnVars, scrVars>>

\* `return data`
ParseReturn ==
    /\ par_pc = "loop"
    /\ bi >= Len(blocks)
    /\ par_pc' = "parsed"
    /\ UNCHANGED <<par_platform, blocks, bi, data, stats, runVars, tokVars, fnVars, scrVars>>

\* facebook_scraper.py 416-433: the counts over the list.
FbCounts ==
    /\ par_pc = "parsed"
    /\ par_platform = "fb"
    /\ stats' = FbStats(data)
    /\ par_pc' = "done"
    /\ UNCHANGED <<par_platform, blocks, bi, data, runVars, tokVars, fnVars, scrVars>>

\* reddit_scraper.py 342-343: df = process_reddit_csv(pd.DataFrame(list)).
\* A frame built from an empty list has no column `text`: df["text"] raises
\* KeyError and the script ends there.
RedditCsv ==
    /\ par_pc = "parsed"
    /\ par_platform = "rd"
    /\ data' = [k \in DOMAIN data |-> process_reddit_csv(data[k])]
    /\ par_pc' = IF data = << >> THEN "crashed" ELSE "done"
    /\ UNCHANGED <<par_platform, blocks, bi, stats, runVars, tokVars, fnVars, scrVars>>

ParNext == ParseStep \/ ParseReturn \/ FbCounts \/ RedditCsv

ParSpec == ParInit /\ [][ParNext]_vars

(***************************************************************************)
(* The text functions called on their own: fb_time_to_hours_from_comment,  *)
(* clean_comment, clean_username (facebook_scraper.py) and the link loop   *)
(* of the search harvesters.  An argument carries, beside the text handed  *)
(* to the function, the parts the text was put together from.              *)
(***************************************************************************)
\* str(n) of a natural number.
DigitChars == <<"0", "1", "2", "3", "4", "5", "6", "7", "8", "9">>
RECURSIVE Decimal(_)
Decimal(n) ==
    IF n < 10 THEN <<DigitChars[n + 1]>>
    ELSE Decimal(n \div 10) \o <<DigitChars[(n % 10) + 1]>>

\* str.upper, character by character.
UpperChar(c) ==
    IF c \in Range(LowerCase)
    THEN UpperCase[CHOOSE k \in DOMAIN LowerCase : LowerCase[k] = c]
    ELSE c

\* The largest count of a relative time handed to the function.
MaxTimeValue == 120

\* How a relative time is written around its count and unit.
TimeLayouts == {"plain", "spaced", "upper", "ago", "after words"}
TimeText(n, unit, layout) ==
    CASE layout = "plain" -> Decimal(n) \o <<unit>>
      [] layout = "spaced" -> Decimal(n) \o <<" ", unit>>
      [] layout = "upper" -> Decimal(n) \o <<UpperChar(unit)>>
      [] layout = "ago" -> Decimal(n) \o <<unit, " ", "a", "g", "o">>
      [] layout = "after words" ->
             <<"E", "d", "i", "t", "e", "d", " ", MidDot, " ">> \o Decimal(n)
                \o <<" ", unit, "\n">>

\* Texts that hold no relative time.
TimelessTexts ==
    {<< >>,
     <<"Y", "e", "s", "t", "e", "r", "d", "a", "y">>,
     <<"j", "u", "s", "t", " ", "n", "o", "w">>,
     <<"3", "h", "o", "u", "r", "s">>,
     <<"a", "3", "h">>,
     <<"3", "_", "h">>,
     <<"3", " ", "h", "m">>,
     <<"m", "5">>,
     <<"1", "2">>,
     <<"h">>,
     <<"3", ".", " ", "h", "i">>}

\* The arguments of fb_time_to_hours_from_comment: a text with a relative
\* time, a text without, and a value that is no string (None).
TimeArgs ==
    {[kind |-> "token", n |-> n, unit |-> u, text |-> SomeText(TimeText(n, u, l))] :
        n \in 0..MaxTimeValue, u \in HourUnits, l \in TimeLayouts}
    \cup {[kind |-> "none", n |-> 0, unit |-> "", text |-> SomeText(t)] :
             t \in TimelessTexts}
    \cup {[kind |-> "nonstr", n |-> 0, unit |-> "", text |-> NoText]}

\* The pieces a comment text is made of: words, the tokens clean_comment
\* looks for, a number, the connector and a URL.
CleanTokens ==
    {<<"o", "k">>,
     <<"n", "i", "c", "e">>,
     WordLike,
     <<"l", "i", "k", "e">>,
     WordReply,
     WordEdited,
     WordFollow,
     <<"2">>,
     <<MidDot>>,
     HttpsPrefix \o <<"x", ".", "y">>}

\* The longest comment text, in pieces.
MaxTokens == 3

\* The arguments of clean_comment: pieces with one space between them.
CleanArgs ==
    {[kind |-> "pieces", text |-> JoinSpace(ps)] :
        ps \in SeqsUpTo(CleanTokens, MaxTokens)}

\* The words a name text is made of.
NameWords == {<<"B", "o", "b">>, <<"S", "m", "i", "t", "h">>, <<"A", "n", "o", "n", "y", "m", "o", "u", "s">>, <<"p", "a", "r", "t", "i", "c", "i", "p", "a", "n", "t">>, <<"7">>}

\* The longest name text, in words.
MaxWords == 4

\* The words are repetitions of "Anonymous participant", each followed by a
\* number or not.
RECURSIVE AnonWords(_)
AnonWords(ws) ==
    \/ ws = << >>
    \/ /\ Len(ws) >= 2
       /\ JoinSpace(SubSeq(ws, 1, 2)) = TextAnonymousParticipant
       /\ \/ AnonWords(SubSeq(ws, 3, Len(ws)))
          \/ /\ Len(ws) >= 3
             /\ AllIn(ws[3], Digits)
             /\ AnonWords(SubSeq(ws, 4, Len(ws)))

\* The arguments of clean_username: words with one space between them
\* ("anon" when they are repetitions of "Anonymous participant", "other"
\* when not), a text without a word, and None.
UserArgs ==
    {[kind |-> IF AnonWords(ws) THEN "anon" ELSE "other", words |-> ws,
      text |-> SomeText(JoinSpace(ws))] :
        ws \in SeqsUpTo(NameWords, MaxWords) \ {<< >>}}
    \cup {[kind |-> "blank", words |-> << >>, text |-> SomeText(t)] :
             t \in {<< >>, <<" ">>, <<" ", "\n">>}}
    \cup {[kind |-> "blank", words |-> << >>, text |-> NoText]}

(***************************************************************************)
(* The link loop of the search harvesters (google_search_instagram,        *)
(* google_search_and_collect_links, google_search,                         *)
(* google_search_reddit_posts): every href of the result pages, in page    *)
(* order, goes through the platform's test and is added to the set `links` *)
(* cut at its first question mark.  An href may be None.                   *)
(***************************************************************************)
\* `lit in s`
Contains(s, lit) == \E p \in 1..Len(s) : HasAt(s, p, lit)

\* Mutant of BeforeQuery: the href is kept whole.
BeforeQueryKeepsQuery(href) == href

\* href.split("?")[0]
BeforeQuery(href) ==
    IF "?" \in Range(href)
    THEN SubSeq(href, 1, (CHOOSE p \in DOMAIN href :
                             /\ href[p] = "?"
                             /\ \A q \in 1..(p - 1) : href[q] # "?") - 1)
    ELSE href

\* The test an href has to pass on each platform.
IsPostLink(p, href) ==
    CASE p = "ig" ->
           /\ Contains(BeforeQuery(href), <<"i", "n", "s", "t", "a", "g", "r", "a", "m", ".", "c", "o", "m", "/", "p", "/">>)
           /\ ~Contains(BeforeQuery(href), <<"/", "r", "e", "e", "l", "/">>)
      [] p = "fb" ->
           LET u == Lower(href)
           IN  /\ Contains(u, <<"f", "a", "c", "e", "b", "o", "o", "k", ".", "c", "o", "m">>)
               /\ \E x \in {<<"/", "p", "o", "s", "t", "s", "/">>, <<"/", "g", "r", "o", "u", "p", "s", "/">>, <<"p", "e", "r", "m", "a", "l", "i", "n", "k", ".", "p", "h", "p">>, <<"/", "r", "e", "e", "l", "/">>, <<"/", "r", "e", "e", "l", "s", "/">>} :
                     Contains(u, x)
               /\ ~\E x \in {<<"/", "v", "i", "d", "e", "o">>, <<"/", "w", "a", "t", "c", "h">>} : Contains(u, x)
      [] p = "li" ->
           /\ HasAt(href, 1, <<"h", "t", "t", "p", "s", ":", "/", "/", "w", "w", "w", ".", "l", "i", "n", "k", "e", "d", "i", "n", ".", "c", "o", "m", "/", "p", "o", "s", "t", "s", "/">>)
           /\ ~Contains(href, <<"g", "o", "o", "g", "l", "e">>)
      [] p = "tw" ->
           /\ Contains(href, <<"t", "w", "i", "t", "t", "e", "r", ".", "c", "o", "m">>)
           /\ Contains(href, <<"/", "s", "t", "a", "t", "u", "s", "/">>)
      [] p = "rd" ->
           /\ Contains(href, <<"r", "e", "d", "d", "i", "t", ".", "c", "o", "m", "/", "c", "o", "m", "m", "e", "n", "t", "s", "/">>)
           /\ ~Contains(href, <<"o", "l", "d", ".", "r", "e", "d", "d", "i", "t", ".", "c", "o", "m">>)

\* The set `links` after the hrefs from position k on were gone through.
RECURSIVE CollectLinks(_, _, _, _)
CollectLinks(p, hrefs, k, links_so_far) ==
    IF k > Len(hrefs) THEN links_so_far
    ELSE LET href == hrefs[k]
         IN  IF href.found /\ href.text # << >> /\ IsPostLink(p, href.text)
             THEN CollectLinks(p, hrefs, k + 1,
                               links_so_far \cup {BeforeQuery(href.text)})
             ELSE CollectLinks(p, hrefs, k + 1, links_so_far)

\* The hrefs a result page can hold, per platform.
Hrefs(p) ==
    {NoText} \cup
    {SomeText(t) : t \in
       CASE p = "ig" ->
              {<<"h", "t", "t", "p", "s", ":", "/", "/", "w", "w", "w", ".", "i", "n", "s", "t", "a", "g", "r", "a", "m", ".", "c", "o", "m", "/", "p", "/", "a", "/">>,
               <<"h", "t", "t", "p", "s", ":", "/", "/", "w", "w", "w", ".", "i", "n", "s", "t", "a", "g", "r", "a", "m", ".", "c", "o", "m", "/", "p", "/", "a", "/", "?", "h", "l", "=", "e", "n">>,
               <<"h", "t", "t", "p", "s", ":", "/", "/", "w", "w", "w", ".", "i", "n", "s", "t", "a", "g", "r", "a", "m", ".", "c", "o", "m", "/", "p", "/", "a", "/", "?", "i", "m", "g", "=", "2", "?", "x">>,
               <<"h", "t", "t", "p", "s", ":", "/", "/", "w", "w", "w", ".", "i", "n", "s", "t", "a", "g", "r", "a", "m", ".", "c", "o", "m", "/", "p", "/", "b", "/">>,
               <<"h", "t", "t", "p", "s", ":", "/", "/", "w", "w", "w", ".", "i", "n", "s", "t", "a", "g", "r", "a", "m", ".", "c", "o", "m", "/", "r", "e", "e", "l", "/", "c", "/">>,
               <<"h", "t", "t", "p", "s", ":", "/", "/", "g", ".", "c", "o", "/", "?", "q", "=", "i", "n", "s", "t", "a", "g", "r", "a", "m", ".", "c", "o", "m", "/", "p", "/", "a", "/">>}
         [] p = "fb" ->
              {<<"h", "t", "t", "p", "s", ":", "/", "/", "w", "w", "w", ".", "f", "a", "c", "e", "b", "o", "o", "k", ".", "c", "o", "m", "/", "u", "/", "p", "o", "s", "t", "s", "/", "1">>,
               <<"h", "t", "t", "p", "s", ":", "/", "/", "w", "w", "w", ".", "f", "a", "c", "e", "b", "o", "o", "k", ".", "c", "o", "m", "/", "u", "/", "p", "o", "s", "t", "s", "/", "1", "?", "r", "e", "f", "=", "x">>,
               <<"h", "t", "t", "p", "s", ":", "/", "/", "w", "w", "w", ".", "F", "a", "c", "e", "b", "o", "o", "k", ".", "c", "o", "m", "/", "u", "/", "P", "o", "s", "t", "s", "/", "2", "?", "a", "=", "1">>,
               <<"h", "t", "t", "p", "s", ":", "/", "/", "w", "w", "w", ".", "f", "a", "c", "e", "b", "o", "o", "k", ".", "c", "o", "m", "/", "p", "e", "r", "m", "a", "l", "i", "n", "k", ".", "p", "h", "p", "?", "i", "d", "=", "1">>,
               <<"h", "t", "t", "p", "s", ":", "/", "/", "w", "w", "w", ".", "f", "a", "c", "e", "b", "o", "o", "k", ".", "c", "o", "m", "/", "p", "e", "r", "m", "a", "l", "i", "n", "k", ".", "p", "h", "p", "?", "i", "d", "=", "2">>,
               <<"h", "t", "t", "p", "s", ":", "/", "/", "w", "w", "w", ".", "f", "a", "c", "e", "b", "o", "o", "k", ".", "c", "o", "m", "/", "w", "a", "t", "c", "h", "/", "?", "v", "=", "/", "p", "o", "s", "t", "s", "/">>}
         [] p = "li" ->
              {<<"h", "t", "t", "p", "s", ":", "/", "/", "w", "w", "w", ".", "l", "i", "n", "k", "e", "d", "i", "n", ".", "c", "o", "m", "/", "p", "o", "s", "t", "s", "/", "a">>,
               <<"h", "t", "t", "p", "s", ":", "/", "/", "w", "w", "w", ".", "l", "i", "n", "k", "e", "d", "i", "n", ".", "c", "o", "m", "/", "p", "o", "s", "t", "s", "/", "a", "?", "t", "r", "k", "=", "x">>,
               <<"h", "t", "t", "p", "s", ":", "/", "/", "w", "w", "w", ".", "l", "i", "n", "k", "e", "d", "i", "n", ".", "c", "o", "m", "/", "p", "o", "s", "t", "s", "/", "b", "?", "t", "r", "k", "=", "x">>,
               <<"h", "t", "t", "p", "s", ":", "/", "/", "w", "w", "w", ".", "l", "i", "n", "k", "e", "d", "i", "n", ".", "c", "o", "m", "/", "p", "o", "s", "t", "s", "/", "g", "o", "o", "g", "l", "e", "-", "c">>,
               <<"h", "t", "t", "p", ":", "/", "/", "w", "w", "w", ".", "l", "i", "n", "k", "e", "d", "i", "n", ".", "c", "o", "m", "/", "p", "o", "s", "t", "s", "/", "a">>}
         [] p = "tw" ->
              {<<"h", "t", "t", "p", "s", ":", "/", "/", "t", "w", "i", "t", "t", "e", "r", ".", "c", "o", "m", "/", "u", "/", "s", "t", "a", "t", "u", "s", "/", "1">>,
               <<"h", "t", "t", "p", "s", ":", "/", "/", "t", "w", "i", "t", "t", "e", "r", ".", "c", "o", "m", "/", "u", "/", "s", "t", "a", "t", "u", "s", "/", "1", "?", "s", "=", "2", "0">>,
               <<"h", "t", "t", "p", "s", ":", "/", "/", "t", "w", "i", "t", "t", "e", "r", ".", "c", "o", "m", "/", "u", "/", "s", "t", "a", "t", "u", "s", "/", "2", "?", "s", "=", "2", "0">>,
               <<"h", "t", "t", "p", "s", ":", "/", "/", "t", "w", "i", "t", "t", "e", "r", ".", "c", "o", "m", "/", "u">>,
               <<"h", "t", "t", "p", "s", ":", "/", "/", "x", ".", "c", "o", "m", "/", "u", "/", "s", "t", "a", "t", "u", "s", "/", "3">>}
         [] p = "rd" ->
              {<<"h", "t", "t", "p", "s", ":", "/", "/", "w", "w", "w", ".", "r", "e", "d", "d", "i", "t", ".", "c", "o", "m", "/", "c", "o", "m", "m", "e", "n", "t", "s", "/", "a">>,
               <<"h", "t", "t", "p", "s", ":", "/", "/", "w", "w", "w", ".", "r", "e", "d", "d", "i", "t", ".", "c", "o", "m", "/", "c", "o", "m", "m", "e", "n", "t", "s", "/", "a", "?", "s", "o", "r", "t", "=", "n", "e", "w">>,
               <<"h", "t", "t", "p", "s", ":", "/", "/", "w", "w", "w", ".", "r", "e", "d", "d", "i", "t", ".", "c", "o", "m", "/", "c", "o", "m", "m", "e", "n", "t", "s", "/", "b", "?", "s", "o", "r", "t", "=", "n", "e", "w">>,
               <<"h", "t", "t", "p", "s", ":", "/", "/", "o", "l", "d", ".", "r", "e", "d", "d", "i", "t", ".", "c", "o", "m", "/", "c", "o", "m", "m", "e", "n", "t", "s", "/", "a">>,
               <<"h", "t", "t", "p", "s", ":", "/", "/", "w", "w", "w", ".", "r", "e", "d", "d", "i", "t", ".", "c", "o", "m", "/", "r", "/", "x">>}}

\* The most hrefs the result pages hold.
MaxHrefs == 3

\* The arguments of the link loop: the platform and the hrefs in page order.
HarvestArgs ==
    UNION {{[platform |-> p, hrefs |-> hs] : hs \in SeqsUpTo(Hrefs(p), MaxHrefs)} :
              p \in Platforms}

\* The functions that can be called and the arguments of each.
FnArgs(f) ==
    CASE f = "fb_time_to_hours_from_comment" -> TimeArgs
      [] f = "clean_comment" -> CleanArgs
      [] f = "clean_username" -> UserArgs
      [] f = "google_search" -> HarvestArgs

FnNames == {"fb_time_to_hours_from_comment", "clean_comment", "clean_username",
            "google_search"}

FnInit ==
    /\ fn_name \in FnNames
    /\ fn_arg \in FnArgs(fn_name)
    /\ fn_out = << >>
    /\ fn_prev = << >>
    /\ fn_pc = "call"
    /\ runFixed
    /\ TokIdle
    /\ ParIdle
    /\ ScrIdle

\* hours_ago = fb_time_to_hours_from_comment(time_raw)
CallFbTime ==
    /\ fn_pc = "call"
    /\ fn_name = "fb_time_to_hours_from_comment"
    /\ fn_out' = fb_time_to_hours_from_comment(fn_arg.text)
    /\ fn_pc' = "once"
    /\ UNCHANGED <<fn_name, fn_arg, fn_prev, runVars, tokVars, parVars, scrVars>>

\* clean_comment(text)
CallCleanComment ==
    /\ fn_pc = "call"
    /\ fn_name = "clean_comment"
    /\ fn_out' = clean_comment(fn_arg.text)
    /\ fn_pc' = "once"
    /\ UNCHANGED <<fn_name, fn_arg, fn_prev, runVars, tokVars, parVars, scrVars>>

\* clean_comment applied to what clean_comment returned.
CallCleanCommentAgain ==
    /\ fn_pc = "once"
    /\ fn_name = "clean_comment"
    /\ fn_prev' = fn_out
    /\ fn_out' = clean_comment(fn_out)
    /\ fn_pc' = "twice"
    /\ UNCHANGED <<fn_name, fn_arg, runVars, tokVars, parVars, scrVars>>

\* clean_username(text)
CallCleanUsername ==
    /\ fn_pc = "call"
    /\ fn_name = "clean_username"
    /\ fn_out' = clean_username(fn_arg.text)
    /\ fn_pc' = "once"
    /\ UNCHANGED <<fn_name, fn_arg, fn_prev, runVars, tokVars, parVars, scrVars>>

\* The link loop of the harvester and its `return list(links)`: the list
\* holds the set's elements in the set's order, which is any order.  rd
\* calls log_progress before the return, which raises.
CallHarvest ==
    /\ fn_pc = "call"
    /\ fn_name = "google_search"
    /\ IF LogProgressWorks(fn_arg.platform)
       THEN /\ \E order \in Perms(CollectLinks(fn_arg.platform, fn_arg.hrefs, 1, {})) :
                  fn_out' = order
            /\ fn_pc' = "once"
       ELSE /\ fn_out' = fn_out
            /\ fn_pc' = "raised"
    /\ UNCHANGED <<fn_name, fn_arg, fn_prev, runVars, tokVars, parVars, scrVars>>

FnNext ==
    \/ CallFbTime
    \/ CallCleanComment
    \/ CallCleanCommentAgain
    \/ CallCleanUsername
    \/ CallHarvest

FnSpec == FnInit /\ [][FnNext]_vars

(***************************************************************************)
(* parse_ig_comment_blocks on one comment: an author, a relative time in   *)
(* one of the shapes Instagram shows, and a text.                          *)
(***************************************************************************)
\* The unit letters of a relative time: minutes, hours, days, weeks, years.
ShownUnits == {"m", "h", "d", "w", "y"}

TimeCounts == {<<"1">>, <<"1", "2">>}

\* A count, a space or none, and the unit letter in either case.
TimeShape(count, spaced, unit, upper) ==
    count \o (IF spaced THEN <<" ">> ELSE << >>)
          \o <<IF upper THEN UpperChar(unit) ELSE unit>>

TimeShapes ==
    {TimeShape(c, sp, u, up) :
        c \in TimeCounts, sp \in BOOLEAN, u \in ShownUnits, up \in BOOLEAN}

Handles == {<<"u", "1">>, <<"a", "n", "n", "_", "b">>}

Bodies == {<<"h", "i", "!">>, <<"s", "o", " ", "n", "i", "c", "e", "!">>}

TimeTokInit ==
    /\ raw_texts \in {<<a, t, b>> : a \in Handles, t \in TimeShapes, b \in Bodies}
    /\ i = 0
    /\ comments = << >>
    /\ tok_pc = "scan"
    /\ runFixed
    /\ ParIdle
    /\ FnIdle
    /\ ScrIdle

TimeTokSpec == TimeTokInit /\ [][TokNext]_vars

(***************************************************************************)
(* scroll_comment_panel (instagram_scraper.py 129-162): the whole body is  *)
(* in try / except Exception, which prints and returns.  `polls` keeps the *)
(* latest positions the panel reported, newest last.                       *)
(***************************************************************************)
\* `for i in range(80)`
ScrollRounds == 80
\* `if stable >= 5: break`
StableLimit == 5

\* The scrollTop values a poll can report.
Positions == {0, 1, 2}

\* The last n elements of s.
LastN(s, n) == IF Len(s) <= n THEN s ELSE SubSeq(s, Len(s) - n + 1, Len(s))

\* Mutant of StableAfter: a change of position leaves the counter as it is.
StableNeverReset(new_scroll, last, st) ==
    IF new_scroll = last THEN st + 1 ELSE st

\* `if new_scroll == last_scroll: stable += 1 ... else: stable = 0`
StableAfter(new_scroll, last, st) ==
    IF new_scroll = last THEN st + 1 ELSE 0

ScrollInit ==
    /\ scr_pc = "start"
    /\ scr_i = 0
    /\ last_scroll = -1
    /\ stable = 0
    /\ polls = << >>
    /\ scr_err = FALSE
    /\ runFixed
    /\ TokIdle
    /\ ParIdle
    /\ FnIdle

\* time.sleep(3); driver.find_element(...): the panel is found, or the
\* lookup raises and the except branch ends the function.
ScrollFind ==
    /\ scr_pc = "start"
    /\ \E found \in BOOLEAN :
        IF found
        THEN /\ scr_pc' = "loop"
             /\ scr_err' = FALSE
        ELSE /\ scr_pc' = "returned"
             /\ scr_err' = TRUE
    /\ UNCHANGED <<scr_i, last_scroll, stable, polls, runVars, tokVars,
                   parVars, fnVars>>

\* One iteration of the loop: the scroll script, the sleep, the poll of
\* scrollTop, the stability test.  Either script call may raise.
ScrollRound ==
    /\ scr_pc = "loop"
    /\ scr_i < ScrollRounds
    /\ scr_i' = scr_i + 1
    /\ \E scroll_ok, poll_ok \in BOOLEAN, new_scroll \in Positions :
        IF scroll_ok /\ poll_ok
        THEN /\ stable' = StableAfter(new_scroll, last_scroll, stable)
             /\ polls' = LastN(Append(polls, new_scroll), StableLimit + 1)
             /\ IF new_scroll = last_scroll /\ stable' >= StableLimit
                THEN /\ scr_pc' = "returned"
                     /\ last_scroll' = last_scroll
                ELSE /\ scr_pc' = "loop"
                     /\ last_scroll' = new_scroll
             /\ scr_err' = FALSE
        ELSE /\ scr_pc' = "returned"
             /\ scr_err' = TRUE
             /\ UNCHANGED <<last_scroll, stable, polls>>
    /\ UNCHANGED <<runVars, tokVars, parVars, fnVars>>

\* range(80) is used up.
ScrollExhausted ==
    /\ scr_pc = "loop"
    /\ scr_i >= ScrollRounds
    /\ scr_pc' = "returned"
    /\ UNCHANGED <<scr_i, last_scroll, stable, polls, scr_err, runVars,
                   tokVars, parVars, fnVars>>

ScrollNext == ScrollFind \/ ScrollRound \/ ScrollExhausted

\* Every driver call of the function returns or raises.
ScrollSpec == ScrollInit /\ [][ScrollNext]_vars /\ WF_vars(ScrollNext)

(***************************************************************************)
(* Properties of a run.                                                    *)
(***************************************************************************)
Successes == {k \in DOMAIN replies_data : replies_data[k].success}

TraceAt(kind) == {k \in DOMAIN trace : trace[k].k = kind}

\* The events that are calls of the run (not lines written to stdout).
IsCall(e) == e.k \in {"open", "quit", "gen", "nav", "load", "post", "sleep"}

\* C1: at every point of a run, on every platform, the number of entries of
\* the replies list with success = true is at most replyLimit.
C1_SuccessesWithinLimit == Cardinality(Successes) <= reply_limit

\* C1 witness: the limit has been reached by successful posts while a further
\* candidate is still waiting in the reply loop.
C1_Witness ==
    /\ pc = "reply"
    /\ reply_limit >= 1
    /\ Cardinality(Successes) = reply_limit
    /\ cand <= cand_end

\* C2: the replies list never holds two entries with success = true and the
\* same username.
C2_NoAuthorRepliedTwice ==
    \A a, b \in Successes : a # b => replies_data[a].username # replies_data[b].username

\* C3: the replies list holds at most one entry per distinct author.
C3_OneAttemptPerAuthor ==
    \A a, b \in DOMAIN replies_data :
        a # b => replies_data[a].username # replies_data[b].username

\* C4: on every exit path of a run whose automation session was opened and
\* handed to the main block, the session has been closed when the run ends.
C4_SessionClosedOnExit ==
    (pc = "exited" /\ driver_bound) => session = "closed"

\* C5: within a run, the progress value of each progress event is at least
\* the progress value of every earlier progress event (values are n over d);
\* stated here for the events before any failure event, which the claim
\* covers as well.
C5_ProgressNonDecreasing ==
    \A a, b \in TraceAt("progress") :
        (a < b /\ trace[a].s # "failed" /\ trace[b].s # "failed")
            => trace[a].n * trace[b].d <= trace[b].n * trace[a].d

\* C6: a run that has ended (its session having been set up) has emitted
\* exactly one terminal object: the result object, or else a failure event
\* followed by a non-zero exit.
C6_ExactlyOneTerminalObject ==
    (pc = "exited" /\ driver_bound) =>
        LET has_result == TraceAt("result") # {}
            has_failure == \E k \in TraceAt("progress") : trace[k].s = "failed"
        IN  /\ has_result # has_failure
            /\ has_failure => exit_code # 0

\* C7: a failure in a step of the post action sequence of a candidate, the
\* navigation to the comment's post included, never ends the run: no run
\* ends with a non-zero exit right after navigating for a candidate.
C7_PostFailureNeverFatal ==
    (pc = "exited" /\ exit_code # 0) =>
        ~ \E k \in TraceAt("nav") : \A j \in (k + 1)..Len(trace) : ~IsCall(trace[j]) \/ trace[j].k = "quit"

\* C8: after each successful post the next call of the run is a sleep of the
\* platform's fixed reply delay (Instagram 40, Facebook 30, Reddit 45,
\* LinkedIn 45, Twitter 60), whatever the job's replyLimit and pageScanCount.
C8_ReplyDelayAfterSuccess ==
    \A k \in TraceAt("post") :
        trace[k].n = 1 =>
            \E j \in (k + 1)..Len(trace) :
                /\ \A m \in (k + 1)..(j - 1) : ~IsCall(trace[m])
                /\ trace[j].k = "sleep"
                /\ trace[j].n = (CASE platform = "ig" -> 40
                                   [] platform = "fb" -> 30
                                   [] platform = "rd" -> 45
                                   [] platform = "li" -> 45
                                   [] platform = "tw" -> 60)

\* C8 witness: a successful post, its sleep, and a later candidate for which
\* a reply was generated.
C8_Witness ==
    \E k \in TraceAt("post") :
        /\ trace[k].n = 1
        /\ \E j \in TraceAt("gen") : j > k
        /\ reply_limit = 2

\* C9: when a run has ended, the length of the replies list equals the
\* number of reply-generation calls made.
C9_OneEntryPerGeneration ==
    pc = "exited" => Len(replies_data) = Cardinality(TraceAt("gen"))

\* The position in the trace of the last event of the given kinds; 0 if none.
LastOf(kinds) ==
    LET at == {k \in DOMAIN trace : trace[k].k \in kinds}
    IN  IF at = {} THEN 0 ELSE CHOOSE k \in at : \A m \in at : m <= k

\* The call that follows position k of the trace; 0 if the run made none.
NextCall(k) ==
    LET at == {j \in (k + 1)..Len(trace) : IsCall(trace[j])}
    IN  IF at = {} THEN 0 ELSE CHOOSE j \in at : \A m \in at : j <= m

\* Whether `small` can be obtained from `big` by deleting elements.
RECURSIVE IsSubseq(_, _)
IsSubseq(small, big) ==
    IF small = << >> THEN TRUE
    ELSE IF big = << >> THEN FALSE
    ELSE IF small[1] = big[1] THEN IsSubseq(Tail(small), Tail(big))
    ELSE IsSubseq(small, Tail(big))

\* C12: on every platform, when a run has ended successfully the last
\* progress event it emitted has progress = 100.
C12_LastProgressIs100 ==
    (pc = "exited" /\ exit_code = 0) =>
        /\ LastOf({"progress"}) # 0
        /\ trace[LastOf({"progress"})].n = 100 * trace[LastOf({"progress"})].d

\* C13: when a run has ended successfully the result object is the last
\* thing it wrote to the output stream: no progress event follows it.
C13_ResultIsLastOutput ==
    (pc = "exited" /\ exit_code = 0) =>
        /\ LastOf({"progress", "result"}) # 0
        /\ trace[LastOf({"progress", "result"})].k = "result"

\* C14: on every platform, after each failed post the next call of the run
\* is a sleep of a recovery delay that is greater than zero and shorter than
\* the platform's REPLY_DELAY.
C14_RecoveryDelayAfterFailure ==
    \A k \in TraceAt("post") :
        trace[k].n = 0 =>
            /\ NextCall(k) # 0
            /\ trace[NextCall(k)].k = "sleep"
            /\ trace[NextCall(k)].n > 0
            /\ trace[NextCall(k)].n < ReplyDelay(platform)

\* The positions of the post calls in the trace, in order.
PostCalls ==
    LET at == TraceAt("post")
    IN  [m \in 1..Cardinality(at) |->
            CHOOSE k \in at : Cardinality({j \in at : j <= k}) = m]

\* C15: a failure of the text-generation service for a candidate does not
\* raise out of generate_reply and does not prevent the candidate's post
\* attempt: a post call for that candidate follows, before any other
\* generation, with the template written for its author, and the
\* ReplyAttempt recorded for every post call carries the text that was
\* posted.
C15_TemplateOnGenerationFailure ==
    LET gens == TraceAt("gen")
        posts == TraceAt("post")
        calls == PostCalls
    IN
    /\ \A k \in gens :
        trace[k].t = "error" =>
            \E j \in posts :
                /\ j > k
                /\ \A g \in gens : ~(k < g /\ g < j)
                /\ trace[j].t = "template"
                /\ trace[j].s = trace[k].s
    /\ Len(calls) = Len(replies_data)
    /\ \A m \in DOMAIN replies_data :
        /\ replies_data[m].reply_text.src = trace[calls[m]].t
        /\ replies_data[m].reply_text.user = replies_data[m].username
        /\ replies_data[m].username = trace[calls[m]].s
        /\ replies_data[m].reply_text.src = "template" =>
              replies_data[m].reply_text.about = ""

\* C16: replies are attempted in the order of the comment list: the
\* positions of the candidates for which a reply was generated increase
\* along the run, each is the row at that position of the list, and the
\* usernames of the replies list are, in order, a subsequence of the authors
\* of the comment list.
C16_AttemptsInListOrder ==
    LET gens == TraceAt("gen") IN
    /\ \A a, b \in gens : a < b => trace[a].n < trace[b].n
    /\ \A a \in gens :
        /\ trace[a].n \in DOMAIN all_comments
        /\ all_comments[trace[a].n].author = trace[a].s
    /\ IsSubseq([m \in DOMAIN replies_data |-> replies_data[m].username],
                [m \in DOMAIN all_comments |-> all_comments[m].author])

\* C16 witness: two attempts were made, for authors that differ, in a list
\* where the order matters.
C16_Witness ==
    /\ Len(replies_data) = 2
    /\ replies_data[1].username # replies_data[2].username

\* The number of successful posts made before position k of the trace.
SuccessesBefore(k) ==
    Cardinality({j \in TraceAt("post") : j < k /\ trace[j].n = 1})

\* The reply loop (of the last post, on LinkedIn and Twitter) has ended
\* without a fatal error.
LoopEnded == pc = "finish" \/ (pc = "exited" /\ exit_code = 0)

\* C17 (safety part): no reply is generated, hence no navigation and no
\* post made, once the number of successful posts equals replyLimit; no
\* candidate is attempted twice; and when the loop has ended with the limit
\* not reached, the whole list was walked: every candidate was attempted or
\* passed over because its author had been replied to.
C17_LoopStopConditions ==
    /\ \A k \in TraceAt("gen") : SuccessesBefore(k) < reply_limit
    /\ \A k \in TraceAt("nav") \cup TraceAt("post") :
          SuccessesBefore(k) < reply_limit
    /\ \A a, b \in TraceAt("gen") : a # b => trace[a].n # trace[b].n
    /\ (LoopEnded /\ reply_count < reply_limit) =>
          /\ cand = cand_end + 1
          /\ cand_end = Len(all_comments)
          /\ \A p \in DOMAIN all_comments :
                \/ \E k \in TraceAt("gen") : trace[k].n = p
                \/ /\ HasDedup(platform)
                   /\ \E m \in Successes :
                         replies_data[m].username = all_comments[p].author

\* C17: the reply loop always terminates (the run reaches its end) and the
\* loop's stop conditions hold throughout.
C17_LoopTerminates == []C17_LoopStopConditions /\ <>(pc = "exited")

\* C17 witness: the limit was reached while a candidate was still waiting,
\* and the run has ended.
C17_Witness ==
    /\ pc = "exited"
    /\ reply_limit >= 1
    /\ reply_count = reply_limit
    /\ Len(all_comments) > Cardinality(TraceAt("gen"))

\* C24: the status of every progress event written is running, searching,
\* completed or failed.
C24_ProgressStatusValues ==
    \A k \in TraceAt("progress") :
        trace[k].s \in {"running", "searching", "completed", "failed"}

\* When the search harvester first found the URL: the URLs of a run are
\* numbered in that order (Harvest).
DiscoveredAt(url) == url

\* C26: the list of post URLs handed to extraction holds the URLs in the
\* order in which the harvester first found them, so extraction, which goes
\* through the list from its head, takes the earliest-found URLs first.
C26_FrontierInDiscoveryOrder ==
    \A a, b \in DOMAIN post_urls :
        a < b => DiscoveredAt(post_urls[a]) < DiscoveredAt(post_urls[b])

\* The harvester is at work.
Harvesting == pc \in {"search", "pages", "harvested"}

\* C34: the page loop scans a page only while fewer than google_pages pages
\* have been advanced past, and goes on to another page only after a
\* successful advance, which counts; links once found stay in the set and
\* all of them are in the list handed on; with google_pages = 0 no link is
\* found; the harvester comes to an end.
C34_HarvestBoundedAndComplete ==
    /\ [](/\ page <= google_pages
          /\ google_pages = 0 => links = {}
          /\ (~Harvesting /\ exit_code = 0)
                => {post_urls[k] : k \in DOMAIN post_urls} = links)
    /\ [][pc = "pages" => /\ page < google_pages
                          /\ links \subseteq links'
                          /\ pc' = "pages" => page' = page + 1]_vars
    /\ <>(~Harvesting)

\* The advance failed after the first of two pages and the links of that
\* page are in the list handed on.
C34_Witness ==
    /\ ~Harvesting
    /\ exit_code = 0
    /\ google_pages = 2
    /\ page = 0
    /\ Len(post_urls) = 2

\* The latest StableLimit + 1 polls all reported one position: each of the
\* latest StableLimit polls equals the poll before it.
Settled(ps) ==
    /\ Len(ps) = StableLimit + 1
    /\ \A k \in 2..Len(ps) : ps[k] = ps[k - 1]

\* C35: the loop makes at most 80 scroll actions and the function returns; a
\* round that polled a position ends the loop exactly when the position has
\* equalled the previous poll for 5 polls in a row; a poll that differs from
\* the previous one sets the counter to 0; an error in a round or in the
\* lookup of the panel makes the function return, not raise.
C35_ScrollLoopBounded ==
    /\ [](scr_i <= ScrollRounds /\ scr_pc \in {"start", "loop", "returned"})
    /\ [][/\ (scr_pc = "loop" /\ scr_i' = scr_i + 1 /\ ~scr_err')
                => /\ (scr_pc' = "returned") <=> Settled(polls')
                   /\ polls'[Len(polls')] # last_scroll => stable' = 0
          /\ (scr_err' /\ ~scr_err) => scr_pc' = "returned"]_vars
    /\ <>(scr_pc = "returned")

\* The loop ended early on a settled panel, after a change of position had
\* set the counter back.
C35_Witness ==
    /\ scr_pc = "returned"
    /\ ~scr_err
    /\ Settled(polls)
    /\ scr_i > StableLimit + 2
    /\ scr_i < ScrollRounds

\* The progress events of the trace.
ProgressEvents == {trace[k] : k \in {m \in DOMAIN trace : trace[m].k = "progress"}}

\* C36: with reply_limit > 0 and google_pages > 0, the progress value n / d
\* of every progress event emitted so far is between 0 and 100.
C36_ProgressInRange ==
    (reply_limit > 0 /\ google_pages > 0)
        => \A ev \in ProgressEvents :
               /\ ev.d > 0
               /\ 0 <= ev.n
               /\ ev.n <= 100 * ev.d

\* A run that has replied as often as the limit allows and more than once:
\* the progress of the last reply is 100, that of the one before is less.
C36_Witness ==
    /\ reply_limit = 2
    /\ reply_count = 2
    /\ google_pages > 0
    /\ platform = "ig"
    /\ \E ev \in ProgressEvents : ev.s = "running" /\ ev.n = 100 * ev.d
    /\ \E ev \in ProgressEvents : ev.s = "running" /\ ev.n = 85 * ev.d

\* The authors with a successful entry in the list of reply attempts.
Succeeded(attempts) ==
    {attempts[k].username : k \in {m \in DOMAIN attempts : attempts[m].success}}

\* C32: on the platforms that keep replied_users, a step of the reply loop
\* past a candidate skips it only when its author has a successful attempt;
\* otherwise it makes an attempt for that author, and the author is in
\* replied_users afterwards exactly when the attempt succeeded or an earlier
\* one had.  So an author whose post failed is attempted again.
C32_AuthorRecordedOnlyOnSuccess ==
    [][(HasDedup(platform) /\ pc = "reply" /\ cand' = cand + 1)
          => LET A == all_comments[cand].author
             IN  /\ replied_users = Succeeded(replies_data)
                 /\ IF A \in Succeeded(replies_data)
                    THEN replies_data' = replies_data
                    ELSE /\ Len(replies_data') = Len(replies_data) + 1
                         /\ replies_data'[Len(replies_data')].username = A
                         /\ (A \in replied_users')
                                <=> replies_data'[Len(replies_data')].success]_vars

\* Two attempts for one author, the first of them failed.
C32_Witness ==
    /\ HasDedup(platform)
    /\ Len(replies_data) = 2
    /\ replies_data[1].username = replies_data[2].username
    /\ ~replies_data[1].success
    /\ replies_data[1].username \notin replied_users

\* C33: a comment that is in the list keeps its place, its author and its
\* body in every later step of the run, and the author for which the reply
\* loop generates and records a reply is the author extraction recorded for
\* the comment at that position of the list.
C33_RecordsNeverMutated ==
    /\ [][\A k \in DOMAIN all_comments :
              /\ k \in DOMAIN all_comments'
              /\ all_comments'[k].author = all_comments[k].author
              /\ all_comments'[k].text = all_comments[k].text]_vars
    /\ [](\A a \in TraceAt("gen") :
              /\ trace[a].n \in DOMAIN all_comments
              /\ trace[a].s = all_comments[trace[a].n].author)
    /\ [](\A m \in DOMAIN replies_data :
              \E k \in DOMAIN all_comments :
                  replies_data[m].username = all_comments[k].author)

\* A finished run whose list holds the comments of two posts, with a reply
\* attempted for the author of the first after the second was added.
C33_Witness ==
    /\ pc = "exited"
    /\ result # << >>
    /\ ~RepliesPerPost(platform)
    /\ Len(all_comments) = 2
    /\ all_comments[1].post_url # all_comments[2].post_url
    /\ replies_data # << >>
    /\ replies_data[1].username = all_comments[1].author

\* The positions of the list of reply attempts with the given outcome.
Outcomes(attempts, ok) == {k \in DOMAIN attempts : attempts[k].success = ok}

\* C39: in the result of a run that ended without a fatal error,
\* totalReplies is the number of entries of replies with success = true; on
\* the platforms that keep replied_users (ig, fb, rd) it is also the number
\* of distinct usernames among those entries; on Facebook stats.failed is
\* the number of entries with success = false.
C39_ResultCountsMatchReplies ==
    result # << >> =>
        LET r == result[1] IN
        /\ r.totalReplies = Cardinality(Outcomes(r.replies, TRUE))
        /\ HasDedup(platform) =>
               r.totalReplies = Cardinality(Succeeded(r.replies))
        /\ platform = "fb" =>
               r.failed = Cardinality(Outcomes(r.replies, FALSE))

\* A finished Facebook run whose replies hold two attempts for one author,
\* the first failed and the second posted.
C39_Witness ==
    /\ result # << >>
    /\ platform = "fb"
    /\ Len(result[1].replies) = 2
    /\ ~result[1].replies[1].success
    /\ result[1].replies[2].success
    /\ result[1].replies[1].username = result[1].replies[2].username
    /\ result[1].totalReplies = 1
    /\ result[1].failed = 1

\* C40 as stated: in the result of a run that ended without a fatal error,
\* totalComments is the number of entries of the comments array, and the
\* array lists the collected comments in collection order, however many
\* were collected.
C40_TotalIsArrayLength ==
    result # << >> =>
        /\ result[1].totalComments = Len(result[1].comments)
        /\ result[1].comments = all_comments

\* C40 as amended: totalComments is the number of collected comments; the
\* comments array lists them in collection order, all of them on Facebook
\* and the first OutputCap of them on Instagram, LinkedIn and Twitter, so
\* the two agree when at most OutputCap comments were collected.
C40_TotalIsCollectedCount ==
    result # << >> =>
        LET r == result[1]
            shown == Len(r.comments)
        IN
        /\ r.totalComments = Len(all_comments)
        /\ shown = IF platform = "fb" THEN Len(all_comments)
                   ELSE Min(Len(all_comments), OutputCap)
        /\ \A k \in 1..shown : r.comments[k] = all_comments[k]
        /\ Len(all_comments) <= OutputCap => r.totalComments = shown

\* A finished Instagram run that collected one comment more than the result
\* shows.
C40_Witness ==
    /\ result # << >>
    /\ platform = "ig"
    /\ Len(all_comments) = OutputCap + 1
    /\ result[1].totalComments = OutputCap + 1
    /\ Len(result[1].comments) = OutputCap

(***************************************************************************)
(* Properties of the Instagram tokenizer.                                  *)
(***************************************************************************)
\* C10: every record the tokenizer has emitted has a non-empty author, a
\* present timestamp and a body of at least 5 characters.
C10_RecordsWellFormed ==
    \A k \in DOMAIN comments :
        /\ comments[k].author # << >>
        /\ comments[k].time # << >>
        /\ Len(comments[k].text) >= 5

\* The first index from k on that is past the end or holds neither a stray
\* bullet nor a blank.
NextNonBullet(raw, k) ==
    CHOOSE m \in k..Len(raw) :
        /\ m = Len(raw) \/ ~IsStrayBullet(FragAt(raw, m))
        /\ \A q \in k..(m - 1) : IsStrayBullet(FragAt(raw, q))

\* The fragment at index k is a username candidate.
CandidateAt(raw, k) == k < Len(raw) /\ IsUsername(FragAt(raw, k))

\* The candidate at index k is followed, bullets and blanks apart, by a
\* timestamp.
TimedAt(raw, k) ==
    /\ CandidateAt(raw, k)
    /\ NextNonBullet(raw, k + 1) < Len(raw)
    /\ time_pattern(FragAt(raw, NextNonBullet(raw, k + 1)))

\* C27: at a username candidate whose next fragment, bullets and blanks
\* apart, is no timestamp, the step appends no record and moves the scan to
\* that fragment, which lies after the candidate; no step of the scan moves
\* back, so an abandoned candidate is not examined again.
C27_AbandonResumesAtNextFragment ==
    [][/\ (tok_pc = "scan" /\ CandidateAt(raw_texts, i) /\ ~TimedAt(raw_texts, i))
            => /\ comments' = comments
               /\ i' = NextNonBullet(raw_texts, i + 1)
               /\ i' > i
               /\ tok_pc' = "scan"
       /\ (tok_pc = "scan" /\ tok_pc' = "scan") => i' > i]_vars

\* A finished scan whose first fragment was abandoned as an author and whose
\* second fragment, where the scan resumed, is the author of the record.
C27_Witness ==
    /\ tok_pc = "done"
    /\ Len(raw_texts) = 4
    /\ CandidateAt(raw_texts, 0)
    /\ ~TimedAt(raw_texts, 0)
    /\ TimedAt(raw_texts, 1)
    /\ Len(comments) = 1
    /\ comments[1].author = raw_texts[2]

\* The first index after the timestamp at index t that is past the end or
\* holds a boundary: a username candidate or a timestamp.
BodyStop(raw, t) ==
    CHOOSE m \in (t + 1)..Len(raw) :
        /\ m = Len(raw) \/ IsUsername(FragAt(raw, m)) \/ time_pattern(FragAt(raw, m))
        /\ \A q \in (t + 1)..(m - 1) :
               ~IsUsername(FragAt(raw, q)) /\ ~time_pattern(FragAt(raw, q))

\* A fragment the body leaves out: noise or a like count.
Dropped(f) == is_noise(f) \/ LikesCount(f)

\* The fragments between the timestamp at index t and the next boundary,
\* without the dropped ones, joined by single spaces.
BodyOf(raw, t) ==
    JoinSpace(SelectSeq(SubSeq(raw, t + 2, BodyStop(raw, t)),
                        LAMBDA f : ~Dropped(f)))

\* C28: a step that emits a record appends one record whose body is the
\* space-joined fragments, in input order, between the record's timestamp and
\* the next boundary, without the noise fragments and the like counts; the
\* scan goes on at the boundary.
C28_BodyIsFragmentsUpToBoundary ==
    [][comments' # comments
          => LET t == NextNonBullet(raw_texts, i + 1)
                 rec == comments'[Len(comments')]
             IN  /\ Len(comments') = Len(comments) + 1
                 /\ SubSeq(comments', 1, Len(comments)) = comments
                 /\ rec.text = BodyOf(raw_texts, t)
                 /\ i' = BodyStop(raw_texts, t)]_vars

\* A finished scan of author, timestamp, a dropped fragment and a text: the
\* body is the text alone.
C28_Witness ==
    /\ tok_pc = "done"
    /\ Len(raw_texts) = 4
    /\ TimedAt(raw_texts, 0)
    /\ Dropped(raw_texts[3])
    /\ BodyStop(raw_texts, 1) = 4
    /\ Len(comments) = 1
    /\ comments[1].text = raw_texts[4]

\* The candidate at index k has a timestamp and, before the next boundary, a
\* fragment the body keeps.
BodiedAt(raw, k) ==
    /\ TimedAt(raw, k)
    /\ LET t == NextNonBullet(raw, k + 1)
       IN  \E m \in (t + 1)..(BodyStop(raw, t) - 1) : ~Dropped(FragAt(raw, m))

\* C29: a step of the scan appends exactly one record, with the candidate as
\* author and the timestamp as time and a non-empty body, when it stands at
\* a username candidate followed by a timestamp and by a kept fragment before
\* the next boundary; every other step appends nothing.
C29_EmitIffAuthorTimeBody ==
    [][tok_pc = "scan"
          => IF BodiedAt(raw_texts, i)
             THEN /\ Len(comments') = Len(comments) + 1
                  /\ SubSeq(comments', 1, Len(comments)) = comments
                  /\ comments'[Len(comments')].author = FragAt(raw_texts, i)
                  /\ comments'[Len(comments')].time
                         = FragAt(raw_texts, NextNonBullet(raw_texts, i + 1))
                  /\ comments'[Len(comments')].text # << >>
             ELSE comments' = comments]_vars

\* A finished scan of a fragment that is no candidate, then author, timestamp
\* and text: one record, from the second fragment.
C29_Witness ==
    /\ tok_pc = "done"
    /\ Len(raw_texts) = 4
    /\ ~CandidateAt(raw_texts, 0)
    /\ BodiedAt(raw_texts, 1)
    /\ Len(comments) = 1
    /\ comments[1].author = raw_texts[2]
    /\ comments[1].time = raw_texts[3]

\* C37: every iteration of the outer loop moves the scan index forward,
\* never past the end; a record is appended after the records before it and
\* is made of the fragments from the index of its step up to the index the
\* step leaves, so records follow the input order of their authors and no
\* fragment is in two records; the scan comes to its end.
C37_ScanAdvancesAndEnds ==
    /\ [][(tok_pc = "scan" /\ tok_pc' = "scan")
             => (i' > i /\ i' <= Len(raw_texts))]_vars
    /\ [][comments' # comments
             => LET t == NextNonBullet(raw_texts, i + 1)
                IN  /\ comments' = Append(comments, comments'[Len(comments')])
                    /\ comments'[Len(comments')].author = FragAt(raw_texts, i)
                    /\ i < t /\ t < i'
                    /\ comments'[Len(comments')].time = FragAt(raw_texts, t)
                    /\ comments'[Len(comments')].text = BodyOf(raw_texts, t)
                    /\ i' = BodyStop(raw_texts, t)]_vars
    /\ <>(tok_pc = "done")

\* A finished scan of two comments by different authors: two records, in
\* the order of the input.
C37_Witness ==
    /\ tok_pc = "done"
    /\ Len(raw_texts) = 6
    /\ Len(comments) = 2
    /\ comments[1].author = raw_texts[1]
    /\ comments[2].author = raw_texts[4]
    /\ raw_texts[1] # raw_texts[4]

\* C38: the author of every record the Instagram tokenizer emits fails the
\* Timestamp test; a timestamp-shaped fragment such as "3d" that ended the
\* body of the comment before it is never the author of a comment.
C38_AuthorIsNoTimestamp ==
    tok_pc = "done" =>
        \A k \in 1..Len(comments) : ~time_pattern(comments[k].author)

\* s is digits, then blanks or none, then one letter of units in either case.
DigitsThenUnit(s, units) ==
    /\ Len(s) >= 2
    /\ LowerChar(s[Len(s)]) \in units
    /\ \E a \in 1..(Len(s) - 1) :
           /\ AllIn(SubSeq(s, 1, a), Digits)
           /\ AllIn(SubSeq(s, a + 1, Len(s) - 1), {" "})

\* The input is one comment: an author, a relative time over units, a text.
OneComment(raw, units) ==
    /\ Len(raw) = 3
    /\ IsUsername(raw[1])
    /\ DigitsThenUnit(raw[2], units)
    /\ ~IsUsername(raw[3]) /\ ~Dropped(raw[3]) /\ ~DigitsThenUnit(raw[3], ShownUnits)

\* The record of the comment.
RecordOf(raw) == [author |-> raw[1], time |-> raw[2], text |-> raw[3]]

\* C30 as stated: an author, a time of digits and one of the units m, h, d,
\* w, y, in either case, with or without a space, and a text give the record
\* with that time.
C30_FiveUnitsAccepted ==
    (tok_pc = "done" /\ OneComment(raw_texts, ShownUnits))
        => comments = <<RecordOf(raw_texts)>>

\* C30 as amended: with one of the units m, h, d, w, in either case, with or
\* without a space, the record with that time is emitted; with the unit y no
\* record is emitted.
C30_FourUnitsAccepted ==
    (tok_pc = "done" /\ OneComment(raw_texts, ShownUnits))
        => IF LowerChar(raw_texts[2][Len(raw_texts[2])]) \in {"m", "h", "d", "w"}
           THEN comments = <<RecordOf(raw_texts)>>
           ELSE comments = << >>

\* A finished scan of a comment whose time is `12 W`: the record has it.
C30_Witness ==
    /\ tok_pc = "done"
    /\ OneComment(raw_texts, ShownUnits)
    /\ raw_texts[2] = <<"1", "2", " ", "W">>
    /\ comments = <<RecordOf(raw_texts)>>

\* C31: every fragment the claim calls noise (reply, like, share, follow,
\* view all, a copyright line, digits alone, a count shown twice) passes the
\* Noise test of the tokenizer; no record of a finished scan has such a
\* fragment as its author or in its body.
C31_BoilerplateIsNoise ==
    LET Claimed(f) ==
            LET t == Lower(Strip(f))
            IN  \/ t \in {<<"r", "e", "p", "l", "y">>, <<"l", "i", "k", "e">>,
                          <<"s", "h", "a", "r", "e">>,
                          <<"f", "o", "l", "l", "o", "w">>,
                          <<"v", "i", "e", "w", " ", "a", "l", "l">>}
                \/ t # << >> /\ t[1] = Copyright
                \/ t # << >> /\ AllIn(t, Digits)
                \/ \E a \in 1..Len(t) :
                       /\ a + 1 < Len(t)
                       /\ AllIn(SubSeq(t, 1, a), Digits)
                       /\ t[a + 1] = " "
                       /\ SubSeq(t, a + 2, Len(t)) = SubSeq(t, 1, a)
    IN
    tok_pc = "done"
        => /\ \A k \in DOMAIN raw_texts :
                  Claimed(raw_texts[k]) => is_noise(raw_texts[k])
           /\ \A k \in DOMAIN comments :
                  /\ ~Claimed(comments[k].author)
                  /\ \A m \in DOMAIN raw_texts :
                         Claimed(raw_texts[m])
                             => ~Contains(comments[k].text, raw_texts[m])

(***************************************************************************)
(* Properties of the container parsers.                                    *)
(***************************************************************************)
\* The lookups the parser cannot do without succeed on the container.
LookupsSucceed(p, b) ==
    /\ ~b.stale
    /\ CASE p = "fb" -> b.user.found
         [] p = "li" -> b.user.found /\ b.body # << >>
         [] p = "tw" -> b.user.found /\ b.body # << >> /\ b.btn
         [] p = "rd" -> b.body # << >>

\* The body the platform records for a container whose lookups succeed.
BodyText(p, b) ==
    CASE p = "fb" -> Strip(JoinSpace(NonEmpty(b.body)))
      [] p = "li" -> Strip(b.body[1])
      [] p = "tw" -> Strip(b.body[1])
      [] p = "rd" -> LET t == clean_comment_text(SomeText(Strip(b.body[1])))
                     IN  IF t.found THEN t.text ELSE << >>

\* The container parses without error and has a body of 5 characters or more.
Qualifies(p, b) == LookupsSucceed(p, b) /\ Len(BodyText(p, b)) >= 5

\* The containers gone through so far that qualify, in their order.
QualifiedSoFar ==
    SelectSeq(SubSeq(blocks, 1, bi), LAMBDA b : Qualifies(par_platform, b))

\* C11: while the parser runs and when it returns, its output is the
\* in-order subsequence of the containers gone through that parse without
\* error and have a body of at least 5 characters; a container whose lookup
\* raises is left out and the ones after it are still gone through.
C11_OutputIsQualifyingSubsequence ==
    par_pc \in {"loop", "parsed"} =>
        /\ bi <= Len(blocks)
        /\ Len(data) = Len(QualifiedSoFar)
        /\ \A k \in DOMAIN data :
              data[k].comment = SomeText(BodyText(par_platform, QualifiedSoFar[k]))
        /\ par_pc = "parsed" => bi = Len(blocks)

\* C11 witness: three containers, the middle one's lookup raises, the parser
\* has returned two records.
C11_Witness ==
    /\ par_pc = "parsed"
    /\ Len(blocks) = 3
    /\ ~LookupsSucceed(par_platform, blocks[2])
    /\ Qualifies(par_platform, blocks[1])
    /\ Qualifies(par_platform, blocks[3])
    /\ Len(data) = 2

\* The platform's body-cleaning pipeline applied to a recorded body:
\* clean_comment for fb, clean_comment_text for rd, strip for li and tw.
CleanedBody(p, comment) ==
    IF ~comment.found THEN << >>
    ELSE CASE p = "fb" -> clean_comment(comment.text)
           [] p = "rd" -> LET t == clean_comment_text(comment)
                          IN  IF t.found THEN t.text ELSE << >>
           [] p = "li" -> Strip(comment.text)
           [] p = "tw" -> Strip(comment.text)

\* C18: every record of the comment list has a body that is, once cleaned,
\* at least 5 characters long; a body of boilerplate tokens only is not in
\* the list.
C18_BodiesLongAfterCleaning ==
    \A k \in DOMAIN data :
        Len(CleanedBody(par_platform, data[k].comment)) >= 5

\* C19: every record of the comment list has an author that is there and is
\* not the empty string.
C19_AuthorsNonEmpty ==
    \A k \in DOMAIN data :
        /\ data[k].username.found
        /\ data[k].username.text # << >>

\* hoursAgo of a row of the Facebook list.
HoursAgo(row) == fb_time_to_hours_from_comment(row.time_raw)

\* C20: once Facebook's counts are computed, totalComments is the length of
\* the list, which still holds every qualifying container whatever its time;
\* last-1h counts exactly the rows whose hoursAgo is there and at most 1,
\* last-24h exactly those at most 24; a row whose time element is missing or
\* whose time text has no relative-time match has no hoursAgo and is in
\* neither count.
C20_FacebookCounts ==
    (par_pc = "done" /\ par_platform = "fb") =>
        /\ Len(data) = Len(QualifiedSoFar)
        /\ stats.total = Len(data)
        /\ stats.last_1h =
              Cardinality({k \in DOMAIN data :
                              /\ HoursAgo(data[k]).found
                              /\ HoursAgo(data[k]).n <= HoursAgo(data[k]).d})
        /\ stats.last_24h =
              Cardinality({k \in DOMAIN data :
                              /\ HoursAgo(data[k]).found
                              /\ HoursAgo(data[k]).n <= 24 * HoursAgo(data[k]).d})
        /\ \A k \in DOMAIN data :
              (\/ ~data[k].time_raw.found
               \/ TimeSearch(Lower(data[k].time_raw.text), 1) = 0)
                 => ~HoursAgo(data[k]).found
        /\ stats.last_24h <= Cardinality({k \in DOMAIN data : HoursAgo(data[k]).found})
        /\ stats.last_1h <= stats.last_24h

\* C20 witness: the counts are computed over a list with a row of exactly one
\* hour, a row of exactly 24 hours and a row without a time element.
C20_Witness ==
    /\ par_pc = "done"
    /\ par_platform = "fb"
    /\ \E k \in DOMAIN data : HoursAgo(data[k]) = Hours(1, 1)
    /\ \E k \in DOMAIN data : HoursAgo(data[k]) = Hours(24, 1)
    /\ \E k \in DOMAIN data : ~data[k].time_raw.found
    /\ stats = [total |-> 3, last_1h |-> 1, last_24h |-> 2]

(***************************************************************************)
(* Properties of the text functions.                                       *)
(***************************************************************************)
\* Hours in one unit of relative time, as a fraction.
HoursPerUnit(u) ==
    CASE u = "m" -> [n |-> 1, d |-> 60]
      [] u = "h" -> [n |-> 1, d |-> 1]
      [] u = "d" -> [n |-> 24, d |-> 1]
      [] u = "w" -> [n |-> 168, d |-> 1]
      [] u = "y" -> [n |-> 8760, d |-> 1]

\* C21: fb_time_to_hours_from_comment returns, for a text whose relative
\* time has count n and unit u, n/60 hours for m, n for h, 24n for d, 168n
\* for w and 8760n for y; for a text without a relative time, and for a
\* value that is no string, it returns None.
C21_RelativeTimeToHours ==
    (fn_name = "fb_time_to_hours_from_comment" /\ fn_pc = "once") =>
        IF fn_arg.kind = "token"
        THEN /\ fn_out.found
             /\ fn_out.n * HoursPerUnit(fn_arg.unit).d
                   = fn_arg.n * HoursPerUnit(fn_arg.unit).n * fn_out.d
        ELSE fn_out = NoHours

\* C21 witness: the function has returned 3/4 of an hour for the text 45m.
C21_Witness ==
    /\ fn_name = "fb_time_to_hours_from_comment"
    /\ fn_pc = "once"
    /\ fn_arg.text = SomeText(<<"4", "5", "m">>)
    /\ fn_out.found
    /\ 4 * fn_out.n = 3 * fn_out.d

\* C22: clean_comment applied to its own result returns that result.
C22_CleanCommentIdempotent ==
    (fn_name = "clean_comment" /\ fn_pc = "twice") => fn_out = fn_prev

\* C23: clean_username returns "Anonymous participant" for repetitions of
\* "Anonymous participant" with or without numbers, the first one to three
\* words of any other text that has a word, and never the empty string.
C23_UsernameCleanup ==
    (fn_name = "clean_username" /\ fn_pc = "once") =>
        /\ fn_out # << >>
        /\ fn_arg.kind = "anon" => fn_out = TextAnonymousParticipant
        /\ fn_arg.kind = "other" =>
              \E k \in 1..3 :
                 /\ k <= Len(fn_arg.words)
                 /\ fn_out = JoinSpace(SubSeq(fn_arg.words, 1, k))

\* The entry is the href cut before its first question mark.
IsCutOf(entry, href) ==
    /\ "?" \notin Range(entry)
    /\ Len(entry) <= Len(href)
    /\ SubSeq(href, 1, Len(entry)) = entry
    /\ Len(entry) < Len(href) => href[Len(entry) + 1] = "?"

\* C25: the list a harvester returns holds no entry twice; every entry is
\* an href of the result pages cut before its first question mark; hrefs
\* that differ only after the question mark give one entry, and an href
\* that passes the platform's test has its entry.
C25_LinksDistinctAndCanonical ==
    (fn_name = "google_search" /\ fn_pc = "once") =>
        /\ \A a, b \in DOMAIN fn_out : a # b => fn_out[a] # fn_out[b]
        /\ \A a \in DOMAIN fn_out :
              \E k \in DOMAIN fn_arg.hrefs :
                 /\ fn_arg.hrefs[k].found
                 /\ IsCutOf(fn_out[a], fn_arg.hrefs[k].text)
        /\ \A k \in DOMAIN fn_arg.hrefs :
              fn_arg.hrefs[k].found =>
                 /\ Cardinality({a \in DOMAIN fn_out :
                                    IsCutOf(fn_out[a], fn_arg.hrefs[k].text)}) <= 1
                 /\ IsPostLink(fn_arg.platform, fn_arg.hrefs[k].text) =>
                       \E a \in DOMAIN fn_out :
                          IsCutOf(fn_out[a], fn_arg.hrefs[k].text)

\* C25 witness: three hrefs of one post that differ only after the question
\* mark were harvested and the list returned has one entry.
C25_Witness ==
    /\ fn_name = "google_search"
    /\ fn_pc = "once"
    /\ Len(fn_arg.hrefs) = 3
    /\ \A k \in 1..3 : fn_arg.hrefs[k].found
    /\ \A k \in 1..3 : IsPostLink(fn_arg.platform, fn_arg.hrefs[k].text)
    /\ fn_arg.hrefs[1].text # fn_arg.hrefs[2].text
    /\ fn_arg.hrefs[2].text # fn_arg.hrefs[3].text
    /\ fn_arg.hrefs[1].text # fn_arg.hrefs[3].text
    /\ Len(fn_out) = 1
====
